---- MODULE Spec2Model ----
(***************************************************************************)
(* The ONS spreadsheet downloader of src/src/ingestion/web_scraper.py:     *)
(* ONSExcelDownloader with make_request_with_retry, validate_excel_file,   *)
(* download_file, get_filename_from_url, ensure_unique_filename,           *)
(* process_url and download_from_urls, run against a nondeterministic      *)
(* HTTP transport and a download directory.                               *)
(*                                                                         *)
(* A harness calls one public method of a freshly constructed downloader:  *)
(*   SpecRetry     one call of make_request_with_retry                     *)
(*   SpecDownload  one call of download_file                               *)
(*   Spec          one call of download_from_urls                          *)
(*   SpecValidate  one call of validate_excel_file                         *)
(*   SpecLinks     one call of extract_excel_links                         *)
(*   SpecUnique    calls of ensure_unique_filename, one after the other    *)
(*   SpecFilename  calls of get_filename_from_url, one after the other     *)
(*   SpecClean     one call of _xlsx_sheets_to_csvs or of one of its       *)
(*                 variants for vacs01 and jobs03                          *)
(*   SpecWorkers   read_all_csv run as a script: the main thread and its   *)
(*                 four worker threads                                     *)
(*   SpecMain      main of df_parsing/vacs01 on one folder                 *)
(***************************************************************************)
EXTENDS Integers, Sequences, FiniteSets, TLC

VARIABLES
    cfg,      \* constructor arguments and the method the harness calls
    call,     \* the harness's call of a method that makes no request
    pc,       \* control point of the single thread of control
    rq,       \* frame of make_request_with_retry, with its return value
    dl,       \* frame of download_file, with its return value
    pu,       \* frame of process_url, with its return value
    run,      \* frame of download_from_urls: urls, i, results
    stats,    \* self.stats
    dir       \* the download directory: filename -> size in bytes

vars == <<cfg, call, pc, rq, dl, pu, run, stats, dir>>

---------------------------------------------------------------------------
(* Bounds of the model *)

\* largest max_retries a downloader is constructed with
MaxRetries == 2
\* longest list of page URLs handed to download_from_urls
MaxUrls == 2
\* most anchors the pages of one run hold in total
MaxLinks == 2
\* most calls of ensure_unique_filename the harness makes in a row
MaxCalls == 3
\* most sheets of a workbook
MaxSheets == 3

---------------------------------------------------------------------------
(* Values *)

None == [isNone |-> TRUE]

\* an error message: its text, and the number or the words it quotes
Msg(text, n, detail) == [text |-> text, n |-> n, detail |-> detail]
NoMsg == Msg("", 0, <<>>)

\* retry_delay: int = 30
RetryDelay == 30

\* validate_excel_file: content_length < 1000
MinContentLength == 1000

\* download_file: file_size < 1000
MinFileSize == 1000

\* self.base_url
BaseUrl == "https://www.ons.gov.uk"

Pow2(n) == IF n = 0 THEN 1 ELSE IF n = 1 THEN 2 ELSE IF n = 2 THEN 4
           ELSE IF n = 3 THEN 8 ELSE IF n = 4 THEN 16 ELSE 32

Last(s) == s[Len(s)]

\* str(k) for the counters the model reaches
NumStr(k) ==
    CASE k = 1 -> "1" [] k = 2 -> "2" [] k = 3 -> "3" [] k = 4 -> "4"
      [] k = 5 -> "5" [] k = 6 -> "6" [] OTHER -> "7"

---------------------------------------------------------------------------
(* HTTP headers.  A Content-Type is a sequence of tokens (the words of the *)
(* header value); a Content-Length is absent, a decimal number or text     *)
(* that int() rejects.                                                     *)

\* a header read without .lower()
LowerNot(tok) == tok

Lower(tok) ==
    CASE tok = "TEXT" -> "text"
      [] tok = "Text" -> "text"
      [] tok = "HTML" -> "html"
      [] tok = "Html" -> "html"
      [] OTHER -> tok

CTypeExcel == <<"application", "vnd.ms-excel">>
CTypeHtml  == <<"text", "html">>
CTypeNone  == <<>>

CLenAbsent == [kind |-> "absent", n |-> 0]
CLenBad    == [kind |-> "bad", n |-> 0]
CLen(n)    == [kind |-> "int", n |-> n]

\* response.headers.get('Content-Type', '').lower()
ContentTypeLower(resp) == [i \in DOMAIN resp.ctype |-> Lower(resp.ctype[i])]

\* 'html' in content_type or 'text' in content_type
IsHtmlOrText(ct) == \E i \in DOMAIN ct : ct[i] \in {"html", "text"}

\* int(response.headers.get('Content-Length', 0)) raises ValueError
ContentLengthRaises(resp) == resp.clen.kind = "bad"

\* int(response.headers.get('Content-Length', 0))
ContentLength(resp) == IF resp.clen.kind = "int" THEN resp.clen.n ELSE 0

\* a size check that takes a length of 0 for a small one
TooSmallOrZero(content_length) == content_length < MinContentLength

\* content_length > 0 and content_length < 1000
TooSmall(content_length) ==
    content_length > 0 /\ content_length < MinContentLength

\* a validator without its Content-Type check
ValidateSizeOnly(resp) ==
    IF ContentLengthRaises(resp)
    THEN [raises |-> TRUE, valid |-> FALSE, msg |-> NoMsg]
    ELSE IF TooSmall(ContentLength(resp))
    THEN [raises |-> FALSE, valid |-> FALSE,
          msg |-> Msg("File too small", ContentLength(resp), <<>>)]
    ELSE [raises |-> FALSE, valid |-> TRUE, msg |-> NoMsg]

\* validate_excel_file: whether it raises (ValueError), and the
\* (is_valid, error_message) it returns
validate_excel_file(resp) ==
    LET ct == ContentTypeLower(resp) IN
    IF IsHtmlOrText(ct)
    THEN [raises |-> FALSE, valid |-> FALSE,
          msg |-> Msg("Response is HTML/text instead of Excel file", 0, ct)]
    ELSE IF ContentLengthRaises(resp)
    THEN [raises |-> TRUE, valid |-> FALSE, msg |-> NoMsg]
    ELSE IF TooSmall(ContentLength(resp))
    THEN [raises |-> FALSE, valid |-> FALSE,
          msg |-> Msg("File too small", ContentLength(resp), <<>>)]
    ELSE [raises |-> FALSE, valid |-> TRUE, msg |-> NoMsg]

---------------------------------------------------------------------------
(* The HTTP transport (requests.Session): what one session.head or         *)
(* session.get can produce.  An outcome is a raised RequestException       *)
(* (connection error, timeout) or a response.                              *)

NoName == [stem |-> <<>>, ext |-> ""]

\* a Content-Disposition header: whether it holds 'filename=' (or only
\* 'filename*=', or neither), the name that follows it between quotes and
\* what follows the closing quote, up to the end of the header
Disposition(marker, name, rest) == [marker |-> marker, name |-> name, rest |-> rest]

\* response.headers.get('Content-Disposition', '') of a response without
\* the header
NoDisposition == Disposition("", NoName, NoName)

Response(status, ctype, clen, cdisp, anchors, body, partial) ==
    [isNone |-> FALSE, status |-> status, ctype |-> ctype, clen |-> clen,
     cdisp |-> cdisp, anchors |-> anchors, body |-> body, partial |-> partial]

\* a response of which only the status is read
Bare(status) == Response(status, CTypeNone, CLenAbsent, NoDisposition, <<>>, 0, -1)

NetworkFailure == [exc |-> TRUE, resp |-> None]
Answer(resp)   == [exc |-> FALSE, resp |-> resp]

\* statuses the server answers with: success, not modified, not found,
\* rate limited
ErrorStatuses == {404, 429}

\* header sets of a file response: (Content-Type, Content-Length)
FileHeaders ==
    { <<CTypeExcel, CLenAbsent>>, <<CTypeExcel, CLen(5000)>>,
      <<CTypeExcel, CLen(999)>>,  <<CTypeExcel, CLenBad>>,
      <<CTypeHtml, CLenAbsent>> }

\* bodies of a file response: <<bytes sent, bytes written when the stream
\* breaks or -1>>
FileBodies == { <<999, -1>>, <<1000, -1>>, <<5000, 500>> }

\* the header sets validate_excel_file accepts
ValidHeaders == { h \in FileHeaders : h[1] = CTypeExcel /\ h[2].kind # "bad"
                                       /\ (h[2].kind = "int" => h[2].n >= 1000) }

HeadResponses ==
    { Response(200, h[1], h[2], NoDisposition, <<>>, 0, -1) : h \in FileHeaders }

\* the body of a response whose headers are rejected is never read
GetResponses ==
    { Response(200, h[1], h[2], NoDisposition, <<>>, b[1], b[2]) :
          h \in ValidHeaders, b \in FileBodies }
      \cup { Response(200, h[1], h[2], NoDisposition, <<>>, 0, -1) :
                 h \in FileHeaders \ ValidHeaders }

---------------------------------------------------------------------------
(* URLs, hrefs and filenames.  A URL is base + "/" + dir + "/" + name +     *)
(* tail, the name being a stem (words joined by "_") and an extension, the *)
(* tail a query or fragment.  An href is a URL as an anchor writes it:     *)
(* starting with "/" (root), with a scheme (abs), or neither (rel).        *)

Url(base, path, stem, ext, tail) ==
    [base |-> base, dir |-> path, stem |-> stem, ext |-> ext, tail |-> tail]

Href(form, base, path, stem, ext, tail) ==
    [form |-> form, base |-> base, dir |-> path, stem |-> stem, ext |-> ext,
     tail |-> tail]

FileName(stem, ext) == [stem |-> stem, ext |-> ext]

NoUrl == Url("", "", <<>>, "", "")

\* the page URLs of the __main__ block
PageUrl(k) ==
    Url(BaseUrl, "datasets", <<IF k = 1 THEN "vacs01" ELSE IF k = 2 THEN "x06"
                                ELSE IF k = 3 THEN "vacs02" ELSE "vacs03">>,
        "", "")

\* extract_dataset_name: the identifier after /datasets/, upper-cased
extract_dataset_name(url) ==
    IF url.dir # "datasets" THEN "ons_dataset"
    ELSE CASE url.stem = <<"vacs01">> -> "VACS01"
           [] url.stem = <<"x06">> -> "X06"
           [] url.stem = <<"vacs02">> -> "VACS02"
           [] url.stem = <<"vacs03">> -> "VACS03"
           [] OTHER -> "ons_dataset"

\* dataset_name.lower()
LowerName(name) ==
    CASE name = "VACS01" -> "vacs01" [] name = "X06" -> "x06"
      [] name = "VACS02" -> "vacs02" [] name = "VACS03" -> "vacs03"
      [] OTHER -> name

\* ext.lower()
LowerExt(ext) ==
    CASE ext = ".XLSX" -> ".xlsx" [] ext = ".XLS" -> ".xls" [] OTHER -> ext

ExcelExtensions == {".xlsx", ".xls"}

\* the anchors a page may hold
HrefRoot  == Href("root", "", "f", <<"a">>, ".xlsx", "")
HrefRel   == Href("rel", "", "g", <<"a">>, ".xlsx", "")
HrefQuery == Href("abs", BaseUrl, "d", <<"get">>, "", "?f=.xlsx")
HrefBad   == Href("abs", "http://[", "", <<"a">>, ".xls", "")
HrefHtml  == Href("root", "", "", <<"about">>, ".html", "")

Anchors == {HrefRoot, HrefRel, HrefQuery, HrefBad, HrefHtml}

\* href.lower().endswith(ext) for one of the extensions
EndsWithExcel(href) ==
    IF href.tail = "" THEN LowerExt(href.ext) \in ExcelExtensions
    ELSE href.tail \in {"?f=.xlsx", "?f=.xls"}

\* process_url: convert relative URLs to absolute
Resolve(href) ==
    IF href.form = "root"
    THEN Url(BaseUrl, href.dir, href.stem, href.ext, href.tail)
    ELSE IF href.form = "rel"
    THEN Url(BaseUrl, href.dir, href.stem, href.ext, href.tail)
    ELSE Url(href.base, href.dir, href.stem, href.ext, href.tail)

\* process_url: the Excel links of a page, in the order of its anchors
RECURSIVE ExcelLinks(_)
ExcelLinks(anchors) ==
    IF anchors = <<>> THEN <<>>
    ELSE LET rest == ExcelLinks(Tail(anchors)) IN
         IF EndsWithExcel(Head(anchors))
         THEN <<Resolve(Head(anchors))>> \o rest
         ELSE rest

\* urllib.parse.urlparse(url) raises ValueError (a bracket in the host)
UrlParseRaises(url) == url.base = "http://["

\* os.path.basename(parsed_url.path)
Basename(url) == FileName(url.stem, url.ext)

\* filename and filename.lower().endswith(('.xlsx', '.xls'))
IsExcelName(filename) ==
    filename.stem # <<>> /\ LowerExt(filename.ext) \in ExcelExtensions

\* a fallback name numbered by the calls made so far
FallbackNameCounted(dataset_name, index) ==
    FileName(<<LowerName(dataset_name), "file",
               NumStr(index + Len(call.rets))>>, ".xlsx")

\* f"{dataset_name.lower()}_file_{index}.xlsx"
FallbackName(dataset_name, index) ==
    FileName(<<LowerName(dataset_name), "file", NumStr(index)>>, ".xlsx")

\* 'filename=' in content_disposition
HoldsFilename(content_disposition) == content_disposition.marker = "filename="

\* content_disposition.split('filename=')[1].strip('"\''): all that follows
\* 'filename=', less the quotes at its two ends; a closing quote that
\* something follows stays in the name
SplitFilename(content_disposition) ==
    IF content_disposition.rest = NoName
    THEN content_disposition.name
    ELSE FileName(content_disposition.name.stem
                      \o <<content_disposition.name.ext, "\"">>
                      \o content_disposition.rest.stem,
                  content_disposition.rest.ext)

\* get_filename_from_url after its HEAD request, which returned
\* head_response or raised (except Exception: pass)
NameFromHead(raised, head_response, dataset_name, index) ==
    IF ~raised /\ ~head_response.isNone
        /\ HoldsFilename(head_response.cdisp)
        /\ IsExcelName(SplitFilename(head_response.cdisp))
    THEN SplitFilename(head_response.cdisp)
    ELSE FallbackName(dataset_name, index)

\* a suffix that counts from 0
SuffixedFromZero(filename, counter) ==
    FileName(Append(filename.stem,
                    IF counter = 1 THEN "0" ELSE
                    CASE counter = 2 -> "1" [] counter = 3 -> "2"
                      [] counter = 4 -> "3" [] OTHER -> "4"),
             filename.ext)

\* f"{base_name}_{counter}{ext}"
Suffixed(filename, counter) ==
    FileName(Append(filename.stem, NumStr(counter)), filename.ext)

\* a loop that tries counter + 1 before it has tried counter
RECURSIVE FirstFreeLate(_, _, _)
FirstFreeLate(d, filename, counter) ==
    IF FileName(Append(filename.stem, NumStr(counter + 1)), filename.ext)
           \notin DOMAIN d
    THEN FileName(Append(filename.stem, NumStr(counter + 1)), filename.ext)
    ELSE FirstFreeLate(d, filename, counter + 1)

\* ensure_unique_filename: the while loop from counter on
RECURSIVE FirstFree(_, _, _)
FirstFree(d, filename, counter) ==
    IF Suffixed(filename, counter) \notin DOMAIN d
    THEN Suffixed(filename, counter)
    ELSE FirstFree(d, filename, counter + 1)

\* a resolution that returns the name whether or not a file has it
EnsureNothing(d, filename) == filename

\* a resolution with its test the wrong way round
EnsureTaken(d, filename) ==
    IF filename \in DOMAIN d THEN filename ELSE Suffixed(filename, 1)

ensure_unique_filename(d, filename) ==
    IF filename \notin DOMAIN d THEN filename ELSE FirstFree(d, filename, 1)

\* the directory with a file written or removed
WithFile(d, filename, size) ==
    [f \in DOMAIN d \cup {filename} |-> IF f = filename THEN size ELSE d[f]]

\* an unlink that removes nothing
WithoutFileKept(d, filename) == d

WithoutFile(d, filename) == [f \in DOMAIN d \ {filename} |-> d[f]]
EmptyDir == [f \in {} |-> 0]

---------------------------------------------------------------------------
(* What the transport answers to a request, by what the request is for:    *)
(* "any" a request of the harness, "page" the GET of a page, "name" the    *)
(* HEAD of get_filename_from_url, "head" and "get" those of download_file. *)

\* Content-Disposition filenames: none, a spreadsheet, something else
Dispositions ==
    { NoDisposition,
      Disposition("filename=", FileName(<<"c">>, ".xlsx"), NoName),
      Disposition("filename=", FileName(<<"c">>, ".pdf"), NoName) }

AnchorLists(n) == UNION { [1..k -> Anchors] : k \in 0..n }

PageResponses(n) ==
    { Response(200, CTypeHtml, CLenAbsent, NoDisposition, a, 0, -1) :
          a \in AnchorLists(n) }

NameResponses ==
    { Response(200, CTypeExcel, CLenAbsent, c, <<>>, 0, -1) : c \in Dispositions }

\* what the HEAD request of get_filename_from_url is answered when the
\* harness calls the method itself: also Content-Disposition headers with
\* something after the name, with 'filename*=' alone, and with an
\* upper-case name
FilenameResponses ==
    { Response(200, CTypeExcel, CLenAbsent, c, <<>>, 0, -1) :
          c \in Dispositions \cup
              { Disposition("filename=", FileName(<<"c">>, ".xlsx"),
                            FileName(<<"; size=10">>, "")),
                Disposition("filename=", FileName(<<"c">>, ".xlsx"),
                            FileName(<<"; filename*=UTF-8''c">>, ".xlsx")),
                Disposition("filename*=", FileName(<<"UTF-8''c">>, ".xlsx"),
                            NoName),
                Disposition("filename=", FileName(<<"C">>, ".XLSX"),
                            NoName) } }

Responses(purpose, n) ==
    CASE purpose = "page" -> PageResponses(n)
      [] purpose = "name" -> NameResponses
      [] purpose = "filename" -> FilenameResponses
      [] purpose = "head" -> HeadResponses
      [] purpose = "get"  -> GetResponses
      [] OTHER -> {Bare(200), Bare(304)}

Outcomes(purpose, n) ==
    {NetworkFailure} \cup { Answer(Bare(s)) : s \in ErrorStatuses }
        \cup { Answer(r) : r \in Responses(purpose, n) }

---------------------------------------------------------------------------
(* make_request_with_retry *)

\* a 429 branch that gives up one attempt early
RateLimitRetriesShort(attempt) == attempt < cfg.max_retries - 1

\* if attempt < self.max_retries, in the 429 branch
RateLimitRetries(attempt) == attempt < cfg.max_retries

\* an except branch that sleeps after the last attempt too
FailureRetriesLong(attempt) == attempt <= cfg.max_retries

\* if attempt < self.max_retries, in the except branch
FailureRetries(attempt) == attempt < cfg.max_retries

\* a raise_for_status that lets the client errors through
RaisesForServerErrors(status) == status >= 500 /\ status < 600

\* response.raise_for_status() raises HTTPError, a RequestException
RaisesForStatus(status) == status >= 400 /\ status < 600

\* random.uniform(0.8, 1.2), in thousandths: a + (b - a) * random(), which
\* is b itself when random() is close enough to 1 ("the range [a, b) or
\* [a, b] depending on rounding")
JitterLow == 800
JitterHigh == 1200
Jitters == {JitterLow, 1000, JitterHigh}

\* a backoff that does not grow with the attempts
RetryWaitFlat(attempt) == cfg.retry_delay

\* retry_wait = self.retry_delay * (2 ** attempt), before the jitter
RetryWait(attempt) == cfg.retry_delay * Pow2(attempt)

\* wait_time = self.retry_delay * (2 ** attempt) * random.uniform(0.8, 1.2),
\* before the jitter
WaitTime(attempt) == cfg.retry_delay * Pow2(attempt)

\* a frame of make_request_with_retry about to make its first attempt; ret
\* is the value it returns, exc the exception it lets through ("" if none),
\* wait the base of the wait it is about to sleep, hist the outcomes of its
\* requests and sleeps the waits it slept, in milliseconds
NewRequest(method, url, purpose, retTo) ==
    [method |-> method, url |-> url, purpose |-> purpose, retTo |-> retTo,
     attempt |-> 0, wait |-> 0, ret |-> None, exc |-> "", hist |-> <<>>,
     sleeps |-> <<>>]

IdleRequest == NewRequest("", NoUrl, "", "")

\* what the history of a call keeps of one attempt: the status, or 0 for
\* a request that raised
OutcomeKind(o) == IF o.exc THEN 0 ELSE o.resp.status

\* the history of the call with the outcome of this attempt; it is kept
\* for the calls the harness itself makes
Observed(o) ==
    IF cfg.entry = "make_request_with_retry"
    THEN Append(rq.hist, OutcomeKind(o))
    ELSE rq.hist

\* a 429 branch that sleeps after the last attempt too
RateLimitedSleepsLast(h) ==
    /\ pc' = "mrr_sleep"
    /\ rq' = [rq EXCEPT !.hist = h, !.wait = RetryWait(rq.attempt)]

\* if response.status_code == 429: sleep and continue, or return None
RateLimited(h) ==
    IF RateLimitRetries(rq.attempt)
    THEN /\ pc' = "mrr_sleep"
         /\ rq' = [rq EXCEPT !.hist = h, !.wait = RetryWait(rq.attempt)]
    ELSE /\ pc' = "mrr_ret"
         /\ rq' = [rq EXCEPT !.hist = h, !.ret = None]

\* except requests.exceptions.RequestException: sleep, or return None
RequestFailed(h) ==
    IF FailureRetries(rq.attempt)
    THEN /\ pc' = "mrr_sleep"
         /\ rq' = [rq EXCEPT !.hist = h, !.wait = WaitTime(rq.attempt)]
    ELSE /\ pc' = "mrr_ret"
         /\ rq' = [rq EXCEPT !.hist = h, !.ret = None]

\* one pass of the for loop up to its sleep, the transport answering o
MrrAttemptWith(o) ==
    LET h == Observed(o) IN
    IF o.exc
    THEN RequestFailed(h)
    ELSE IF o.resp.status = 429
    THEN RateLimited(h)
    ELSE IF RaisesForStatus(o.resp.status)
    THEN RequestFailed(h)
    ELSE /\ pc' = "mrr_ret"
         /\ rq' = [rq EXCEPT !.hist = h, !.ret = o.resp]

\* for attempt in range(self.max_retries + 1): is there a next pass
LoopGoesOn(attempt) == attempt + 1 < cfg.max_retries + 1

\* the waits of the call with the one it sleeps now, the jitter drawn; the
\* jitter is kept for the calls the harness itself makes
Slept(jitter) ==
    IF cfg.entry = "make_request_with_retry"
    THEN Append(rq.sleeps, rq.wait * jitter)
    ELSE Append(rq.sleeps, rq.wait * 1000)

\* time.sleep(actual_wait), and the next pass of the loop or, the loop
\* over, the return None that follows it
MrrSleep ==
    /\ pc = "mrr_sleep"
    /\ \E jitter \in Jitters :
          IF LoopGoesOn(rq.attempt)
          THEN /\ pc' = "mrr_attempt"
               /\ rq' = [rq EXCEPT !.sleeps = Slept(jitter), !.wait = 0,
                                   !.attempt = @ + 1]
          ELSE /\ pc' = "mrr_ret"
               /\ rq' = [rq EXCEPT !.sleeps = Slept(jitter), !.wait = 0,
                                   !.ret = None]
    /\ UNCHANGED <<cfg, call, dl, pu, run, stats, dir>>

\* the return to the caller
MrrReturn ==
    /\ pc = "mrr_ret"
    /\ pc' = rq.retTo
    /\ UNCHANGED <<cfg, call, rq, dl, pu, run, stats, dir>>

\* one pass of the for loop of make_request_with_retry: session.head or
\* session.get, and what the loop does with the outcome
MrrAttempt ==
    /\ pc = "mrr_attempt"
    /\ \E o \in Outcomes(rq.purpose, run.linksLeft) : MrrAttemptWith(o)
    /\ dl' = IF rq.purpose \in {"head", "get"}
             THEN [dl EXCEPT !.issued = @ \cup {rq.method}]
             ELSE dl
    /\ UNCHANGED <<cfg, call, pu, run, stats, dir>>

---------------------------------------------------------------------------
(* download_file *)

DownloadResult(success, filename, file_size, error_message, url) ==
    [success |-> success, filename |-> filename, file_size |-> file_size,
     error_message |-> error_message, url |-> url]

\* a frame of download_file(url, filename) before its first statement; ret
\* is the DownloadResult it returns, exc the exception it lets through (""
\* if none), issued the methods of the requests it has made, before the
\* directory as the call found it
NewDownload(url, filename, retTo, before) ==
    [url |-> url, filename |-> filename, retTo |-> retTo,
     head_response |-> None, response |-> None, issued |-> {},
     before |-> before, ret |-> None, exc |-> ""]

IdleDownload == NewDownload(NoUrl, NoName, "", EmptyDir)

\* return DownloadResult(False, filename, 0, error_message, url)
DfFail(frame, error_message) ==
    /\ pc' = "df_ret"
    /\ dl' = [frame EXCEPT !.ret =
                 DownloadResult(FALSE, frame.filename, 0, error_message,
                                frame.url)]

\* a download_file without its try/except: the exception leaves the call
DfRaiseEscapes(frame, exception) ==
    /\ pc' = "df_ret"
    /\ dl' = [frame EXCEPT !.exc = exception]

\* except Exception as e: the result of a raised exception
DfRaise(frame, exception) ==
    DfFail(frame, Msg("Download failed", 0, <<exception>>))

\* the HEAD request of download_file
DfStart ==
    /\ pc = "df_start"
    /\ pc' = "mrr_attempt"
    /\ rq' = NewRequest("HEAD", dl.url, "head", "df_head")
    /\ UNCHANGED <<cfg, call, dl, pu, run, stats, dir>>

\* a download_file that goes on to its GET request whatever the validator
\* said of the HEAD response
DfHeadUnchecked ==
    /\ pc = "df_head"
    /\ IF rq.exc # "" \/ rq.ret.isNone
       THEN /\ DfFail([dl EXCEPT !.head_response = rq.ret],
                      Msg("Failed to get file headers after retries", 0, <<>>))
            /\ rq' = IdleRequest
       ELSE /\ pc' = "mrr_attempt"
            /\ dl' = [dl EXCEPT !.head_response = rq.ret]
            /\ rq' = NewRequest("GET", dl.url, "get", "df_get")
    /\ UNCHANGED <<cfg, call, pu, run, stats, dir>>

\* after the HEAD request: validation, the short wait and the GET request
DfHead ==
    /\ pc = "df_head"
    /\ LET frame == [dl EXCEPT !.head_response = rq.ret] IN
       IF rq.exc # ""
       THEN DfRaise(dl, rq.exc) /\ rq' = IdleRequest
       ELSE IF rq.ret.isNone
       THEN /\ DfFail(frame, Msg("Failed to get file headers after retries",
                                 0, <<>>))
            /\ rq' = IdleRequest
       ELSE LET v == validate_excel_file(rq.ret) IN
            IF v.raises
            THEN DfRaise(frame, "ValueError") /\ rq' = IdleRequest
            ELSE IF ~v.valid
            THEN DfFail(frame, v.msg) /\ rq' = IdleRequest
            ELSE /\ pc' = "mrr_attempt"
                 /\ dl' = frame
                 /\ rq' = NewRequest("GET", dl.url, "get", "df_get")
    /\ UNCHANGED <<cfg, call, pu, run, stats, dir>>

\* after the GET request: validation, and open(file_path, 'wb')
DfGet ==
    /\ pc = "df_get"
    /\ LET frame == [dl EXCEPT !.response = rq.ret] IN
       IF rq.exc # ""
       THEN DfRaise(dl, rq.exc) /\ UNCHANGED dir
       ELSE IF rq.ret.isNone
       THEN /\ DfFail(frame, Msg("Failed to download file after retries",
                                 0, <<>>))
            /\ UNCHANGED dir
       ELSE LET v == validate_excel_file(rq.ret) IN
            IF v.raises
            THEN DfRaise(frame, "ValueError") /\ UNCHANGED dir
            ELSE IF ~v.valid
            THEN DfFail(frame, v.msg) /\ UNCHANGED dir
            ELSE /\ pc' = "df_write"
                 /\ dl' = frame
                 /\ dir' = WithFile(dir, dl.filename, 0)
    /\ rq' = IdleRequest
    /\ UNCHANGED <<cfg, call, pu, run, stats>>

\* for chunk in response.iter_content(...): f.write(chunk), to the end of
\* the body or to the exception that breaks the stream
DfWrite ==
    /\ pc = "df_write"
    /\ IF dl.response.partial >= 0
       THEN /\ dir' = WithFile(dir, dl.filename, dl.response.partial)
            /\ DfRaise(dl, "ChunkedEncodingError")
       ELSE /\ dir' = WithFile(dir, dl.filename, dl.response.body)
            /\ pc' = "df_verify"
            /\ UNCHANGED dl
    /\ UNCHANGED <<cfg, call, rq, pu, run, stats>>

\* a size check with a lower threshold
FileTooSmallLax(file_size) == file_size < 100

\* if file_size < 1000
FileTooSmall(file_size) == file_size < MinFileSize

\* a verification that leaves stats['total_size'] as it is
DfVerifyUncounted ==
    /\ pc = "df_verify"
    /\ IF dl.filename \in DOMAIN dir
       THEN LET file_size == dir[dl.filename] IN
            IF FileTooSmall(file_size)
            THEN /\ dir' = WithoutFile(dir, dl.filename)
                 /\ DfFail(dl, Msg("Downloaded file too small", file_size,
                                   <<>>))
            ELSE /\ pc' = "df_ret"
                 /\ dl' = [dl EXCEPT !.ret =
                              DownloadResult(TRUE, dl.filename, file_size,
                                             NoMsg, dl.url)]
                 /\ UNCHANGED dir
       ELSE /\ DfFail(dl, Msg("File not created after download", 0, <<>>))
            /\ UNCHANGED dir
    /\ UNCHANGED <<cfg, call, rq, pu, run, stats>>

\* verify downloaded file
DfVerify ==
    /\ pc = "df_verify"
    /\ IF dl.filename \in DOMAIN dir
       THEN LET file_size == dir[dl.filename] IN
            IF FileTooSmall(file_size)
            THEN /\ dir' = WithoutFile(dir, dl.filename)
                 /\ DfFail(dl, Msg("Downloaded file too small", file_size,
                                   <<>>))
                 /\ UNCHANGED stats
            ELSE /\ stats' = [stats EXCEPT !.total_size = @ + file_size]
                 /\ pc' = "df_ret"
                 /\ dl' = [dl EXCEPT !.ret =
                              DownloadResult(TRUE, dl.filename, file_size,
                                             NoMsg, dl.url)]
                 /\ UNCHANGED dir
       ELSE /\ DfFail(dl, Msg("File not created after download", 0, <<>>))
            /\ UNCHANGED <<stats, dir>>
    /\ UNCHANGED <<cfg, call, rq, pu, run>>

\* the return of download_file to its caller
DfReturn ==
    /\ pc = "df_ret"
    /\ pc' = dl.retTo
    /\ UNCHANGED <<cfg, call, rq, dl, pu, run, stats, dir>>

---------------------------------------------------------------------------
(* process_url *)

DatasetResult(url, dataset_name, files_found, files_downloaded, downloaded_files, errors) ==
    [url |-> url, dataset_name |-> dataset_name, files_found |-> files_found,
     files_downloaded |-> files_downloaded,
     downloaded_files |-> downloaded_files, errors |-> errors]

\* an error entry that leaves out the file it is about
PageErrorUnnamed(text, filename, cause, url) ==
    [text |-> text, filename |-> NoName, cause |-> cause, url |-> url]

\* an entry of result.errors or of stats['errors']
PageError(text, filename, cause, url) ==
    [text |-> text, filename |-> filename, cause |-> cause, url |-> url]

\* random.uniform(0.5, 1.5) of wait_with_jitter, in thousandths
WaitJitters == {500, 1000, 1500}

\* a wait that does not sleep
WaitNotAtAll(base_delay, jitter) == 0

\* wait_with_jitter(base_delay): the time it sleeps, in milliseconds, the
\* jitter drawn
wait_with_jitter(base_delay, jitter) == base_delay * jitter

\* a frame of process_url(url) with its fresh DatasetResult; anchors are
\* the anchors of the page once it is fetched (soup.find_all), wait the
\* time it is about to sleep between two files
NewProcess(url, retTo) ==
    [url |-> url, dataset_name |-> extract_dataset_name(url), retTo |-> retTo,
     result |-> DatasetResult(url, extract_dataset_name(url), 0, 0, <<>>, <<>>),
     anchors |-> <<>>, excel_links |-> <<>>, i |-> 0, wait |-> 0]

IdleProcess ==
    [url |-> NoUrl, dataset_name |-> "", retTo |-> "",
     result |-> DatasetResult(NoUrl, "", 0, 0, <<>>, <<>>),
     anchors |-> <<>>, excel_links |-> <<>>, i |-> 0, wait |-> 0]

\* an append that puts the message in the list twice
WithErrorTwice(frame, e) ==
    [frame EXCEPT !.result.errors = Append(Append(@, e), e)]

\* result.errors.append(error_msg)
WithError(frame, e) ==
    [frame EXCEPT !.result.errors = Append(@, e)]

\* an except clause that raises again: the run ends there
PuExceptAborts(frame) ==
    LET e == PageError("Error processing URL", NoName, NoMsg, frame.url) IN
    /\ pc' = "done"
    /\ pu' = WithError(frame, e)
    /\ stats' = [stats EXCEPT !.errors = Append(@, e)]

\* except Exception as e: both error lists get the message, and the result
\* is returned
PuExcept(frame) ==
    LET e == PageError("Error processing URL", NoName, NoMsg, frame.url) IN
    /\ pc' = "pu_ret"
    /\ pu' = WithError(frame, e)
    /\ stats' = [stats EXCEPT !.errors = Append(@, e)]

\* the request for the page
PuStart ==
    /\ pc = "pu_start"
    /\ pc' = "mrr_attempt"
    /\ rq' = NewRequest("GET", pu.url, "page", "pu_page")
    /\ UNCHANGED <<cfg, call, dl, pu, run, stats, dir>>

\* after the page request: the Excel links of the page
PuPage ==
    /\ pc = "pu_page"
    /\ rq' = IdleRequest
    /\ IF rq.exc # ""
       THEN PuExcept(pu) /\ UNCHANGED run
       ELSE IF rq.ret.isNone
       THEN /\ pc' = "pu_ret"
            /\ pu' = WithError(pu, PageError(
                         "Failed to fetch webpage after retries", NoName,
                         NoMsg, NoUrl))
            /\ UNCHANGED <<run, stats>>
       ELSE LET excel_links == ExcelLinks(rq.ret.anchors)
                frame == [pu EXCEPT !.anchors = rq.ret.anchors,
                                    !.excel_links = excel_links,
                                    !.result.files_found = Len(excel_links),
                                    !.i = 1]
            IN  /\ run' = [run EXCEPT !.linksLeft = @ - Len(rq.ret.anchors)]
                /\ UNCHANGED stats
                /\ IF excel_links = <<>>
                   THEN /\ pc' = "pu_ret"
                        /\ pu' = WithError(frame, PageError(
                                     "No Excel files found on this page",
                                     NoName, NoMsg, NoUrl))
                   ELSE /\ pc' = "pu_list"
                        /\ pu' = frame
    /\ UNCHANGED <<cfg, call, dl, dir>>

\* the end of one pass of the loop that lists the files to download
ListNext ==
    IF pu.i < Len(pu.excel_links)
    THEN /\ pc' = "pu_list"
         /\ pu' = [pu EXCEPT !.i = @ + 1]
    ELSE /\ pc' = "pu_dl"
         /\ pu' = [pu EXCEPT !.i = 1]

\* one pass of the listing loop: get_filename_from_url up to its HEAD
\* request, ensure_unique_filename and the print
PuList ==
    /\ pc = "pu_list"
    /\ LET link == pu.excel_links[pu.i] IN
       IF UrlParseRaises(link)
       THEN PuExcept(pu) /\ UNCHANGED rq
       ELSE IF IsExcelName(Basename(link))
       THEN ListNext /\ UNCHANGED <<rq, stats>>
       ELSE /\ pc' = "mrr_attempt"
            /\ rq' = NewRequest("HEAD", link, "name", "pu_list_named")
            /\ UNCHANGED <<pu, stats>>
    /\ UNCHANGED <<cfg, call, dl, run, dir>>

\* the listing loop after the HEAD request of get_filename_from_url
PuListNamed ==
    /\ pc = "pu_list_named"
    /\ rq' = IdleRequest
    /\ ListNext
    /\ UNCHANGED <<cfg, call, dl, run, stats, dir>>

\* one pass of the download loop: get_filename_from_url up to its HEAD
\* request, ensure_unique_filename and the call of download_file
PuDl ==
    /\ pc = "pu_dl"
    /\ LET link == pu.excel_links[pu.i] IN
       IF UrlParseRaises(link)
       THEN PuExcept(pu) /\ UNCHANGED <<rq, dl>>
       ELSE IF IsExcelName(Basename(link))
       THEN /\ pc' = "df_start"
            /\ dl' = NewDownload(link,
                         ensure_unique_filename(dir, Basename(link)),
                         "pu_dled", dir)
            /\ UNCHANGED <<rq, pu, stats>>
       ELSE /\ pc' = "mrr_attempt"
            /\ rq' = NewRequest("HEAD", link, "name", "pu_dl_named")
            /\ UNCHANGED <<dl, pu, stats>>
    /\ UNCHANGED <<cfg, call, run, dir>>

\* the download loop after the HEAD request of get_filename_from_url
PuDlNamed ==
    /\ pc = "pu_dl_named"
    /\ pc' = "df_start"
    /\ rq' = IdleRequest
    /\ dl' = NewDownload(pu.excel_links[pu.i],
                 ensure_unique_filename(dir,
                     NameFromHead(rq.exc # "", rq.ret, pu.dataset_name,
                                  pu.i)),
                 "pu_dled", dir)
    /\ UNCHANGED <<cfg, call, pu, run, stats, dir>>

\* a loop body that counts every download, failed or not
RecordedAllCounted(frame, download_result) ==
    LET listed == [frame EXCEPT !.result.downloaded_files =
                                    Append(@, download_result),
                                !.result.files_downloaded = @ + 1]
    IN  IF download_result.success
        THEN listed
        ELSE WithError(listed, PageError("Failed to download",
                           download_result.filename,
                           download_result.error_message, NoUrl))

\* a loop body that puts each DownloadResult at the head of the list
RecordedFirst(frame, download_result) ==
    LET listed == [frame EXCEPT !.result.downloaded_files =
                                    <<download_result>> \o @]
    IN  IF download_result.success
        THEN [listed EXCEPT !.result.files_downloaded = @ + 1]
        ELSE WithError(listed, PageError("Failed to download",
                           download_result.filename,
                           download_result.error_message, NoUrl))

\* a loop body that keeps no message of a failed download
RecordedSilent(frame, download_result) ==
    LET listed == [frame EXCEPT !.result.downloaded_files =
                                    Append(@, download_result)]
    IN  IF download_result.success
        THEN [listed EXCEPT !.result.files_downloaded = @ + 1]
        ELSE listed

\* result.downloaded_files.append(download_result) and the counts
Recorded(frame, download_result) ==
    LET listed == [frame EXCEPT !.result.downloaded_files =
                                    Append(@, download_result)]
    IN  IF download_result.success
        THEN [listed EXCEPT !.result.files_downloaded = @ + 1]
        ELSE WithError(listed, PageError("Failed to download",
                           download_result.filename,
                           download_result.error_message, NoUrl))

\* the download loop after download_file returned, to the wait between
\* files or to the end of the pass
PuDled ==
    /\ pc = "pu_dled"
    /\ dl' = IdleDownload
    /\ IF dl.exc # "" THEN PuExcept(pu) ELSE
       LET frame == Recorded(pu, dl.ret)
           found == IF pu.i < Len(pu.excel_links) THEN 0
                    ELSE pu.result.files_found
       IN  /\ stats' = [stats EXCEPT
                          !.files_downloaded =
                              IF dl.ret.success THEN @ + 1 ELSE @,
                          !.files_found = @ + found]
           /\ IF pu.i < Len(pu.excel_links)
              THEN IF cfg.delay_between_files > 0
                   THEN /\ pc' = "pu_wait"
                        /\ \E jitter \in WaitJitters :
                              pu' = [frame EXCEPT !.wait = wait_with_jitter(
                                        cfg.delay_between_files, jitter)]
                   ELSE pc' = "pu_dl" /\ pu' = [frame EXCEPT !.i = @ + 1]
              ELSE pc' = "pu_ret" /\ pu' = frame
    /\ UNCHANGED <<cfg, call, rq, run, dir>>

\* self.wait_with_jitter(self.delay_between_files): its time.sleep
PuWait ==
    /\ pc = "pu_wait"
    /\ pc' = "pu_dl"
    /\ pu' = [pu EXCEPT !.i = @ + 1, !.wait = 0]
    /\ UNCHANGED <<cfg, call, rq, dl, run, stats, dir>>

\* return result
PuReturn ==
    /\ pc = "pu_ret"
    /\ pc' = pu.retTo
    /\ pu' = [pu EXCEPT !.excel_links = <<>>, !.i = 0]
    /\ UNCHANGED <<cfg, call, rq, dl, run, stats, dir>>

---------------------------------------------------------------------------
(* download_from_urls *)

\* for i, url in enumerate(urls, 1): result = self.process_url(url), or
\* return results
DfuLoop ==
    /\ pc = "dfu_loop"
    /\ IF run.i <= Len(run.urls)
       THEN /\ pc' = "pu_start"
            /\ pu' = NewProcess(run.urls[run.i], "dfu_after")
       ELSE /\ pc' = "done"
            /\ UNCHANGED pu
    /\ UNCHANGED <<cfg, call, rq, dl, run, stats, dir>>

\* a loop that ends the run at the first page whose result has errors
DfuAfterStops ==
    /\ pc = "dfu_after"
    /\ pu' = IdleProcess
    /\ stats' = [stats EXCEPT !.urls_processed = @ + 1]
    /\ IF pu.result.errors # <<>>
       THEN /\ pc' = "done"
            /\ run' = [run EXCEPT !.results = Append(@, pu.result)]
       ELSE IF run.i < Len(run.urls) /\ cfg.delay_between_urls > 0
       THEN /\ pc' = "dfu_wait"
            /\ run' = [run EXCEPT !.results = Append(@, pu.result)]
       ELSE /\ pc' = "dfu_loop"
            /\ run' = [run EXCEPT !.results = Append(@, pu.result),
                                  !.i = @ + 1]
    /\ UNCHANGED <<cfg, call, rq, dl, dir>>

\* results.append(result), the count, and the wait between URLs or the
\* next pass
DfuAfter ==
    /\ pc = "dfu_after"
    /\ pu' = IdleProcess
    /\ stats' = [stats EXCEPT !.urls_processed = @ + 1]
    /\ IF run.i < Len(run.urls) /\ cfg.delay_between_urls > 0
       THEN /\ pc' = "dfu_wait"
            /\ \E jitter \in WaitJitters :
                  run' = [run EXCEPT !.results = Append(@, pu.result),
                                     !.wait = wait_with_jitter(
                                         cfg.delay_between_urls, jitter)]
       ELSE /\ pc' = "dfu_loop"
            /\ run' = [run EXCEPT !.results = Append(@, pu.result),
                                  !.i = @ + 1]
    /\ UNCHANGED <<cfg, call, rq, dl, dir>>

\* self.wait_with_jitter(self.delay_between_urls): its time.sleep
DfuWait ==
    /\ pc = "dfu_wait"
    /\ pc' = "dfu_loop"
    /\ run' = [run EXCEPT !.i = @ + 1, !.wait = 0]
    /\ UNCHANGED <<cfg, call, rq, dl, pu, stats, dir>>

---------------------------------------------------------------------------
(* The downloader after __init__, and the call the harness makes *)

Config(entry, max_retries, delay_between_files, delay_between_urls) ==
    [entry |-> entry, max_retries |-> max_retries, retry_delay |-> RetryDelay,
     delay_between_files |-> delay_between_files,
     delay_between_urls |-> delay_between_urls]

\* self.stats
NewStats ==
    [urls_processed |-> 0, files_found |-> 0, files_downloaded |-> 0,
     total_size |-> 0, errors |-> <<>>]

IdleRun ==
    [urls |-> <<>>, i |-> 0, results |-> <<>>, linksLeft |-> 0, wait |-> 0]

\* the download directories a call starts with: empty, or holding a file
\* of an earlier run
InitDirs == {EmptyDir, WithFile(EmptyDir, FileName(<<"a">>, ".xlsx"), 5000)}

\* a call of the harness: the method, its argument and what it returned
NewCall(method, arg) == [method |-> method, arg |-> arg, ret |-> None]
IdleCall == NewCall("", None)

\* the Content-Type and Content-Length headers validate_excel_file is
\* called with
ContentTypes ==
    { CTypeExcel, CTypeHtml, CTypeNone,
      <<"application", "vnd.openxmlformats-officedocument.spreadsheetml.sheet">>,
      <<"application", "octet-stream">>,
      <<"TEXT", "HTML">>, <<"Text", "plain", "charset", "utf-8">>,
      <<"application", "x", "Html", "+xml">> }

ContentLengths ==
    { CLenAbsent, CLenBad, CLen(0), CLen(1), CLen(2), CLen(500), CLen(998),
      CLen(999), CLen(1000), CLen(5000) }

\* validate_excel_file(response)
InitValidate ==
    /\ cfg = Config("validate_excel_file", 0, 5, 10)
    /\ call \in { NewCall("validate_excel_file",
                           Response(200, t, n, NoDisposition, <<>>, 0, -1)) :
                     t \in ContentTypes, n \in ContentLengths }
    /\ pc = "call"
    /\ rq = IdleRequest
    /\ dl = IdleDownload
    /\ pu = IdleProcess
    /\ run = IdleRun
    /\ stats = NewStats
    /\ dir = EmptyDir

\* the harness's call of validate_excel_file
Validate ==
    /\ pc = "call"
    /\ call.method = "validate_excel_file"
    /\ pc' = "done"
    /\ call' = [call EXCEPT !.ret = validate_excel_file(call.arg)]
    /\ UNCHANGED <<cfg, rq, dl, pu, run, stats, dir>>

---------------------------------------------------------------------------
(* extract_excel_links.  Here an href and a URL are strings, written as    *)
(* the sequence of their pieces: "/f/a.xlsx" is <<"/", "f", "/", "a",      *)
(* ".xlsx">>, and the concatenation of strings is that of sequences.       *)

\* self.base_url as a string
BaseUrlString == <<"https:", "//", "www.ons.gov.uk">>

\* the hrefs of the anchors of a page
HrefStrings ==
    { <<"/", "f", "/", "a", ".xlsx">>,
      <<"g", "/", "a", ".xls">>,
      <<"https:", "//", "www.ons.gov.uk", "/", "f", "/", "a", ".xlsx">>,
      <<"/", "f", "/", "B", ".XLSX">>,
      <<"/", "f", "/", "a", ".xlsx", ".html">>,
      <<"/", "d", "/", "get", "?", "f=", "a", ".xlsx">>,
      <<"httpdocs", "/", "a", ".xlsx">>,
      <<"/", "about", ".html">> }

\* where on the page an anchor is: in a table, in a div or section whose
\* class names a download, or elsewhere in the body
Places == {"body", "table", "download"}

AnchorTag(href, place) == [href |-> href, place |-> place]

\* the pages: html_content as the sequence of its anchors
HtmlContents ==
    UNION { [1..k -> { AnchorTag(h, w) : h \in HrefStrings, w \in Places }] :
                k \in 0..MaxLinks }

\* one piece of href.lower()
LowerPiece(piece) ==
    CASE piece = ".XLSX" -> ".xlsx" [] piece = "B" -> "b" [] OTHER -> piece

\* ext in piece, for the pieces of the hrefs
ExtInPiece(ext, piece) ==
    \/ ext = ".xlsx" /\ piece = ".xlsx"
    \/ ext = ".xls" /\ piece \in {".xls", ".xlsx"}

\* any(ext.lower() in href.lower() for ext in excel_extensions)
HoldsExcelExtension(href) ==
    \E i \in DOMAIN href : \E ext \in ExcelExtensions :
        ExtInPiece(ext, LowerPiece(href[i]))

\* href.startswith('/')
StartsWithSlash(href) == href # <<>> /\ Head(href) = "/"

\* href.startswith('http')
StartsWithHttp(href) ==
    href # <<>> /\ Head(href) \in {"http:", "https:", "httpdocs"}

\* href.lstrip('/')
RECURSIVE LStripSlash(_)
LStripSlash(href) ==
    IF StartsWithSlash(href) THEN LStripSlash(Tail(href)) ELSE href

\* convert relative URLs to absolute: full_url
FullUrl(base_url, href) ==
    IF StartsWithSlash(href) THEN base_url \o href
    ELSE IF ~StartsWithHttp(href) THEN base_url \o <<"/">> \o LStripSlash(href)
    ELSE href

\* the links one strategy adds: those of the anchors it looks at
LinksOf(html_content, base_url, places) ==
    { FullUrl(base_url, html_content[i].href) :
          i \in { j \in DOMAIN html_content :
                      /\ html_content[j].place \in places
                      /\ HoldsExcelExtension(html_content[j].href) } }

\* extract_excel_links: all anchors, then those in tables, then those in
\* download elements, added to one set
extract_excel_links(html_content, base_url) ==
    LinksOf(html_content, base_url, Places)
        \cup LinksOf(html_content, base_url, {"table"})
        \cup LinksOf(html_content, base_url, {"download"})

\* extract_excel_links(html_content)
InitLinks ==
    /\ cfg = Config("extract_excel_links", 0, 5, 10)
    /\ call \in { NewCall("extract_excel_links", h) : h \in HtmlContents }
    /\ pc = "call"
    /\ rq = IdleRequest
    /\ dl = IdleDownload
    /\ pu = IdleProcess
    /\ run = IdleRun
    /\ stats = NewStats
    /\ dir = EmptyDir

\* the harness's call of extract_excel_links, base_url left to its default
ExtractLinks ==
    /\ pc = "call"
    /\ call.method = "extract_excel_links"
    /\ pc' = "done"
    /\ call' = [call EXCEPT !.ret = extract_excel_links(call.arg, BaseUrlString)]
    /\ UNCHANGED <<cfg, rq, dl, pu, run, stats, dir>>

---------------------------------------------------------------------------
(* ensure_unique_filename called for the same filename several times in a  *)
(* row, as process_url calls it for the links of a run: after each call    *)
(* the caller writes a file under the name it got (its download went       *)
(* well) or writes none.                                                   *)

\* the files a download directory may hold at the first call
KnownFiles ==
    { FileName(<<"a">>, ".xlsx"), FileName(<<"a", "1">>, ".xlsx"),
      FileName(<<"a", "2">>, ".xlsx"), FileName(<<"a", "1", "1">>, ".xlsx"),
      FileName(<<"b">>, ".xlsx") }

\* the filenames asked for
AskedNames == { FileName(<<"a">>, ".xlsx"), FileName(<<"a", "1">>, ".xlsx") }

\* ensure_unique_filename(filename), several times; rets are the names
\* returned so far and whether a file was then written under each, before
\* is the directory at the first call
InitUnique ==
    /\ cfg = Config("ensure_unique_filename", 0, 5, 10)
    /\ dir \in { [f \in files |-> 5000] : files \in SUBSET KnownFiles }
    /\ call \in { [method |-> "ensure_unique_filename", arg |-> f,
                    ret |-> NoName, rets |-> <<>>, before |-> dir] :
                       f \in AskedNames }
    /\ pc = "call"
    /\ rq = IdleRequest
    /\ dl = IdleDownload
    /\ pu = IdleProcess
    /\ run = IdleRun
    /\ stats = NewStats

\* the harness's call of ensure_unique_filename
EnsureUnique ==
    /\ pc = "call"
    /\ call.method = "ensure_unique_filename"
    /\ Len(call.rets) < MaxCalls
    /\ pc' = "resolved"
    /\ call' = [call EXCEPT !.ret = ensure_unique_filename(dir, call.arg)]
    /\ UNCHANGED <<cfg, rq, dl, pu, run, stats, dir>>

\* the caller writes a file under the name it got
CallerWrites ==
    /\ pc = "resolved"
    /\ pc' = "call"
    /\ dir' = WithFile(dir, call.ret, 5000)
    /\ call' = [call EXCEPT !.rets = Append(@, [name |-> call.ret,
                                                 written |-> TRUE])]
    /\ UNCHANGED <<cfg, rq, dl, pu, run, stats>>

\* the caller writes no file
CallerWritesNothing ==
    /\ pc = "resolved"
    /\ pc' = "call"
    /\ call' = [call EXCEPT !.rets = Append(@, [name |-> call.ret,
                                                 written |-> FALSE])]
    /\ UNCHANGED <<cfg, rq, dl, pu, run, stats, dir>>

---------------------------------------------------------------------------
(* get_filename_from_url and ensure_unique_filename called for the same    *)
(* link several times in a row with no file written in between, as the     *)
(* listing loop and the download loop of process_url call them.            *)

\* get_filename_from_url(url, dataset_name, index), several times; rets
\* are the names resolved so far, each with the answer to its HEAD
\* request.  The links asked about: a spreadsheet basename in lower and in
\* upper case, a basename that is none, no basename, a URL urlparse
\* rejects
InitFilename ==
    /\ cfg \in { Config("get_filename_from_url", r, 5, 10) : r \in 0..1 }
    /\ call \in { [method |-> "get_filename_from_url", arg |-> u,
                    dataset_name |-> d[1], index |-> d[2], ret |-> NoName,
                    exc |-> "", rets |-> <<>>] :
                       u \in { Resolve(HrefRoot), Resolve(HrefQuery),
                                Resolve(HrefBad),
                                Url(BaseUrl, "f", <<"A">>, ".XLS", ""),
                                Url(BaseUrl, "d", <<>>, "", "") },
                       d \in { <<"VACS01", 1>>, <<"ons_dataset", 2>> } }
    /\ pc = "gf_start"
    /\ rq = IdleRequest
    /\ dl = IdleDownload
    /\ pu = IdleProcess
    /\ run = IdleRun
    /\ stats = NewStats
    /\ dir = EmptyDir

\* get_filename_from_url up to its HEAD request: urlparse, which is not
\* inside the try, the basename and the test of its extension
GfStart ==
    /\ pc = "gf_start"
    /\ Len(call.rets) < MaxCalls
    /\ IF UrlParseRaises(call.arg)
       THEN /\ pc' = "done"
            /\ call' = [call EXCEPT !.exc = "ValueError"]
            /\ rq' = IdleRequest
       ELSE IF IsExcelName(Basename(call.arg))
       THEN /\ pc' = "gf_ret"
            /\ call' = [call EXCEPT !.ret = Basename(call.arg)]
            /\ rq' = IdleRequest
       ELSE /\ pc' = "mrr_attempt"
            /\ call' = call
            /\ rq' = NewRequest("HEAD", call.arg, "filename", "gf_named")
    /\ UNCHANGED <<cfg, dl, pu, run, stats, dir>>

\* get_filename_from_url after its HEAD request
GfNamed ==
    /\ pc = "gf_named"
    /\ pc' = "gf_ret"
    /\ call' = [call EXCEPT !.ret = NameFromHead(rq.exc # "", rq.ret,
                                       call.dataset_name, call.index)]
    /\ UNCHANGED <<cfg, rq, dl, pu, run, stats, dir>>

\* the return of get_filename_from_url, and ensure_unique_filename on the
\* name it returned
GfReturn ==
    /\ pc = "gf_ret"
    /\ pc' = "gf_start"
    /\ call' = [call EXCEPT !.rets = Append(@,
                     [name |-> ensure_unique_filename(dir, call.ret),
                      requested |-> rq.method # "",
                      head_response |-> rq.ret])]
    /\ UNCHANGED <<cfg, rq, dl, pu, run, stats, dir>>

---------------------------------------------------------------------------
(* The cleaning of a workbook: _xlsx_sheets_to_csvs of df_parsing_utils,   *)
(* _xlsx_sheets_to_csvs_vacs01 and _xlsx_sheets_to_csvs_jobs03.  A sheet   *)
(* is its name and what it holds: "data" (rows are left after the          *)
(* cleaning), "thin" (columns, but no row is left after the cleaning) or   *)
(* "blank" (no cell at all: read_excel gives a DataFrame without columns). *)
(* The output folder maps the name of a CSV (without the base name of the  *)
(* workbook) to the number of the sheet it holds, 0 for a file that was    *)
(* there before.                                                           *)

\* str(sheet).replace(" ", "_").replace("/", "_")
SafeSheet(sheet) == IF sheet = "Table 1" THEN "Table_1" ELSE sheet

\* _apply_common_rules(df): what is left of the sheet, "rows" or "empty"
apply_common_rules(kind) == IF kind = "data" THEN "rows" ELSE "empty"

\* the cleaning of _xlsx_sheets_to_csvs_vacs01: df.columns[0] raises on a
\* DataFrame without columns; df.iloc[1:] may leave nothing
CleanedVacs01(kind) ==
    IF kind = "blank" THEN "IndexError"
    ELSE IF kind = "data" THEN "rows" ELSE "empty"

\* the cleaning of _xlsx_sheets_to_csvs_jobs03: df.columns[0] raises on a
\* DataFrame without columns; df.iloc[2:] may leave nothing
CleanedJobs03(kind) ==
    IF kind = "blank" THEN "IndexError"
    ELSE IF kind = "data" THEN "rows" ELSE "empty"

\* one of the three functions called on a workbook, whose sheets have
\* different names; i is the sheet of the pass of the loop, exc the
\* exception the call raises ("" if none)
InitClean ==
    /\ cfg = Config("_xlsx_sheets_to_csvs", 0, 0, 0)
    /\ call \in { [method |-> m, arg |-> w, i |-> 1, written |-> 0,
                    exc |-> "", ret |-> None] :
                       m \in {"_xlsx_sheets_to_csvs",
                              "_xlsx_sheets_to_csvs_vacs01",
                              "_xlsx_sheets_to_csvs_jobs03"},
                       w \in { v \in UNION { [1..k ->
                                   [name : {"Table 1", "Table_1", "Notes"},
                                    kind : {"data", "thin", "blank"}]] :
                                       k \in 0..MaxSheets } :
                                 \A i, j \in DOMAIN v :
                                     i # j => v[i].name # v[j].name } }
    /\ pc = "xs_loop"
    /\ rq = IdleRequest
    /\ dl = IdleDownload
    /\ pu = IdleProcess
    /\ run = IdleRun
    /\ stats = NewStats
    /\ dir \in {EmptyDir, WithFile(EmptyDir, "Notes", 0)}

\* one pass of `for sheet in sheet_names`: read_excel, the cleaning, and
\* df.to_csv if something is left; an exception ends the call
CleanSheet ==
    /\ pc = "xs_loop"
    /\ call.i <= Len(call.arg)
    /\ LET sheet == call.arg[call.i]
           df == CASE call.method = "_xlsx_sheets_to_csvs"
                          -> apply_common_rules(sheet.kind)
                   [] call.method = "_xlsx_sheets_to_csvs_vacs01"
                          -> CleanedVacs01(sheet.kind)
                   [] OTHER -> CleanedJobs03(sheet.kind)
       IN  IF df \notin {"rows", "empty"}
           THEN /\ pc' = "done"
                /\ call' = [call EXCEPT !.exc = df]
                /\ dir' = dir
           ELSE /\ pc' = "xs_loop"
                /\ call' = [call EXCEPT !.i = @ + 1,
                               !.written = IF df = "rows" THEN @ + 1 ELSE @]
                /\ dir' = IF df = "rows"
                          THEN WithFile(dir, SafeSheet(sheet.name), call.i)
                          ELSE dir
    /\ UNCHANGED <<cfg, rq, dl, pu, run, stats>>

\* a workbook without sheets ("No sheets found"), and the end of the
\* loop: if written == 0: raise ValueError
CleanEnd ==
    /\ pc = "xs_loop"
    /\ call.i > Len(call.arg)
    /\ pc' = "done"
    /\ call' = [call EXCEPT !.exc = IF call.written = 0 THEN "ValueError"
                                    ELSE ""]
    /\ UNCHANGED <<cfg, rq, dl, pu, run, stats, dir>>

SpecClean == InitClean /\ [][CleanSheet \/ CleanEnd]_vars

---------------------------------------------------------------------------
(* read_all_csv run as a script.  threads[t] is the state of the t-th      *)
(* Thread: "new" until start(), then "started", "running" while its target *)
(* (vacs01_main, vacs02_main, vacs03_main, x06_main) runs, and "finished"  *)
(* or "raised" when the target has returned or raised.  joined counts the  *)
(* join() calls that have returned, ended is the set of threads that had   *)
(* terminated when end_time was taken.                                     *)

\* a join that returns as soon as the thread is started
TerminatedOrStarted(state) == state # "new"

\* t.join() returns when the thread has terminated, normally or through
\* an exception
Terminated(state) == state \in {"finished", "raised"}

\* start_time = time() and the list of the four threads
InitWorkers ==
    /\ cfg = Config("read_all_csv", 0, 0, 0)
    /\ call = [method |-> "read_all_csv", threads |-> [t \in 1..4 |-> "new"],
               i |-> 1, joined |-> 0, ended |-> {}, logged |-> FALSE]
    /\ pc = "rc_start"
    /\ rq = IdleRequest
    /\ dl = IdleDownload
    /\ pu = IdleProcess
    /\ run = IdleRun
    /\ stats = NewStats
    /\ dir = EmptyDir

\* for t in threads: t.start()
ThreadStart ==
    /\ pc = "rc_start"
    /\ IF call.i <= Len(call.threads)
       THEN /\ call' = [call EXCEPT !.threads[call.i] = "started",
                                    !.i = @ + 1]
            /\ pc' = pc
       ELSE /\ call' = [call EXCEPT !.i = 1]
            /\ pc' = "rc_join"
    /\ UNCHANGED <<cfg, rq, dl, pu, run, stats, dir>>

\* a started thread gets to run its target, and a running target returns
\* or raises
TargetRuns ==
    /\ \E t \in DOMAIN call.threads :
          \/ /\ call.threads[t] = "started"
             /\ call' = [call EXCEPT !.threads[t] = "running"]
          \/ /\ call.threads[t] = "running"
             /\ \E end \in {"finished", "raised"} :
                   call' = [call EXCEPT !.threads[t] = end]
    /\ UNCHANGED <<cfg, pc, rq, dl, pu, run, stats, dir>>

\* for t in threads: t.join()
ThreadJoin ==
    /\ pc = "rc_join"
    /\ IF call.i <= Len(call.threads)
       THEN /\ Terminated(call.threads[call.i])
            /\ call' = [call EXCEPT !.i = @ + 1, !.joined = @ + 1]
            /\ pc' = pc
       ELSE /\ call' = call
            /\ pc' = "rc_end"
    /\ UNCHANGED <<cfg, rq, dl, pu, run, stats, dir>>

\* end_time = time() and logger.info("All scripts completed in ...")
Completed ==
    /\ pc = "rc_end"
    /\ pc' = "done"
    /\ call' = [call EXCEPT
                   !.ended = { t \in DOMAIN call.threads :
                                   call.threads[t] \in {"finished", "raised"} },
                   !.logged = TRUE]
    /\ UNCHANGED <<cfg, rq, dl, pu, run, stats, dir>>

SpecWorkers ==
    InitWorkers /\ [][ThreadStart \/ TargetRuns \/ ThreadJoin \/ Completed]_vars

---------------------------------------------------------------------------
(* main of df_parsing/vacs01.  The folder is dir, with the names of its    *)
(* files; files is the list main makes first, folder the folder as         *)
(* delete_xls_files finds it, undeleted the files os.remove failed on,     *)
(* invoked the files _xlsx_sheets_to_csvs_vacs01 was called on and missing *)
(* those logged as not found.                                              *)

\* a filter that forgets the test of '2017'
SelectedWith2017(filename) ==
    /\ LowerExt(filename.ext) = ".xlsx"
    /\ \E w \in DOMAIN filename.stem : LowerName(filename.stem[w]) = "vacs01"

\* f.lower().endswith('.xlsx') and 'vacs01' in f.lower() and '2017' not
\* in f.lower(), of main and of delete_xls_files
Selected(filename) ==
    /\ LowerExt(filename.ext) = ".xlsx"
    /\ \E w \in DOMAIN filename.stem : LowerName(filename.stem[w]) = "vacs01"
    /\ \A w \in DOMAIN filename.stem : filename.stem[w] # "2017"

\* main up to the list of the files to clean, on a folder of some of six
\* files
InitMain ==
    /\ cfg = Config("vacs01.main", 0, 0, 0)
    /\ dir \in { [f \in names |-> 1] :
                    names \in SUBSET { FileName(<<"vacs01">>, ".xlsx"),
                                       FileName(<<"VACS01", "b">>, ".XLSX"),
                                       FileName(<<"vacs01", "2017">>, ".xlsx"),
                                       FileName(<<"vacs01">>, ".xls"),
                                       FileName(<<"vacs01", "c">>, ".xls"),
                                       FileName(<<"x06">>, ".xlsx") } }
    /\ call = [method |-> "vacs01.main",
               files |-> { f \in DOMAIN dir : Selected(f) },
               folder |-> dir, undeleted |-> {}, invoked |-> {},
               missing |-> {}, exc |-> ""]
    /\ pc = "vm_convert"
    /\ rq = IdleRequest
    /\ dl = IdleDownload
    /\ pu = IdleProcess
    /\ run = IdleRun
    /\ stats = NewStats

\* convert_xls_to_xlsx(folder): each .xls file is written again as
\* .xlsx, unless its conversion fails
MainConvert ==
    /\ pc = "vm_convert"
    /\ pc' = "vm_delete"
    /\ \E converted \in SUBSET { f \in DOMAIN dir : LowerExt(f.ext) = ".xls" } :
          dir' = [f \in DOMAIN dir
                         \cup { FileName(x.stem, ".xlsx") : x \in converted }
                     |-> 1]
    /\ UNCHANGED <<cfg, call, rq, dl, pu, run, stats>>

\* delete_xls_files(folder): os.remove of each file of the filter, which
\* may fail
MainDelete ==
    /\ pc = "vm_delete"
    /\ pc' = "vm_loop"
    /\ \E undeleted \in SUBSET { f \in DOMAIN dir : Selected(f) } :
          /\ dir' = [f \in { g \in DOMAIN dir :
                                Selected(g) => g \in undeleted } |-> 1]
          /\ call' = [call EXCEPT !.folder = dir, !.undeleted = undeleted]
    /\ UNCHANGED <<cfg, rq, dl, pu, run, stats>>

\* one pass of `for file in files`, or the end of the loop; an exception
\* of _xlsx_sheets_to_csvs_vacs01 ends main
MainFile ==
    /\ pc = "vm_loop"
    /\ LET passed == call.invoked \cup call.missing IN
       IF passed = call.files
       THEN pc' = "done" /\ call' = call
       ELSE \E file \in call.files \ passed :
              IF file \notin DOMAIN dir
              THEN /\ pc' = pc
                   /\ call' = [call EXCEPT !.missing = @ \cup {file}]
              ELSE \E exc \in {"", "ValueError"} :
                     /\ pc' = IF exc = "" THEN pc ELSE "done"
                     /\ call' = [call EXCEPT !.invoked = @ \cup {file},
                                             !.exc = exc]
    /\ UNCHANGED <<cfg, rq, dl, pu, run, stats, dir>>

SpecMain == InitMain /\ [][MainConvert \/ MainDelete \/ MainFile]_vars

\* make_request_with_retry(url, method)
InitRetry ==
    /\ cfg \in { Config("make_request_with_retry", r, 5, 10) :
                     r \in 0..MaxRetries }
    /\ call = IdleCall
    /\ pc = "mrr_attempt"
    /\ rq \in { NewRequest(m, PageUrl(1), "any", "done") : m \in {"GET", "HEAD"} }
    /\ dl = IdleDownload
    /\ pu = IdleProcess
    /\ run = IdleRun
    /\ stats = NewStats
    /\ dir = EmptyDir

\* download_file(url, filename)
InitDownload ==
    /\ cfg \in { Config("download_file", r, 5, 10) : r \in 0..MaxRetries }
    /\ call = IdleCall
    /\ pc = "df_start"
    /\ rq = IdleRequest
    /\ dir \in InitDirs
    /\ dl = NewDownload(Resolve(HrefRoot), FileName(<<"a">>, ".xlsx"), "done",
                        dir)
    /\ pu = IdleProcess
    /\ run = IdleRun
    /\ stats = NewStats

\* the configurations of a run: no retry and no delay, or one retry and
\* the default delays
RunConfigs ==
    { Config("download_from_urls", 0, 0, 0),
      Config("download_from_urls", 1, 5, 10) }

\* download_from_urls(urls)
Init ==
    /\ cfg \in RunConfigs
    /\ call = IdleCall
    /\ pc = "dfu_loop"
    /\ rq = IdleRequest
    /\ dl = IdleDownload
    /\ pu = IdleProcess
    /\ run \in { [urls |-> [k \in 1..n |-> PageUrl(k)], i |-> 1,
                  results |-> <<>>, linksLeft |-> MaxLinks, wait |-> 0] :
                    n \in 0..MaxUrls }
    /\ stats = NewStats
    /\ dir = EmptyDir

NextRetry == MrrAttempt \/ MrrSleep \/ MrrReturn

NextDownload ==
    \/ MrrAttempt \/ MrrSleep \/ MrrReturn
    \/ DfStart \/ DfHead \/ DfGet \/ DfWrite \/ DfVerify \/ DfReturn

Next ==
    \/ MrrAttempt \/ MrrSleep \/ MrrReturn
    \/ DfStart \/ DfHead \/ DfGet \/ DfWrite \/ DfVerify \/ DfReturn
    \/ PuStart \/ PuPage \/ PuList \/ PuListNamed \/ PuDl \/ PuDlNamed
    \/ PuDled \/ PuWait \/ PuReturn
    \/ DfuLoop \/ DfuAfter \/ DfuWait

NextValidate == Validate

NextLinks == ExtractLinks

NextFilename ==
    \/ MrrAttempt \/ MrrSleep \/ MrrReturn
    \/ GfStart \/ GfNamed \/ GfReturn

SpecFilename == InitFilename /\ [][NextFilename]_vars

NextUnique == EnsureUnique \/ CallerWrites \/ CallerWritesNothing

SpecUnique == InitUnique /\ [][NextUnique]_vars

SpecLinks == InitLinks /\ [][NextLinks]_vars

SpecValidate == InitValidate /\ [][NextValidate]_vars

SpecRetry == InitRetry /\ [][NextRetry]_vars

\* the call runs on: a request is answered or times out, a sleep ends
SpecRetryFair == SpecRetry /\ WF_vars(NextRetry)

SpecDownload == InitDownload /\ [][NextDownload]_vars

Spec == Init /\ [][Next]_vars

---------------------------------------------------------------------------
(* Properties of make_request_with_retry, under SpecRetry: one call, the   *)
(* transport free to answer each attempt as it likes; rq.hist holds the    *)
(* outcomes of the attempts made so far.                                   *)

\* the call has returned
Returned == pc \in {"mrr_ret", "done"}

\* the call is about to sleep or to make its next request
GoingOn == pc \in {"mrr_sleep", "mrr_attempt"}

Repeated(k, n) == [i \in 1..n |-> k]

\* a 4xx or 5xx status other than 429
IsErrorStatus(status) == status >= 400 /\ status < 600 /\ status # 429

\* a status that is neither 2xx nor 429 (0 stands for no response at all)
IsOtherNon2xx(status) ==
    status # 0 /\ status # 429 /\ (status < 200 \/ status >= 300)

\* C1: a transport that answers 429 exactly max_retries times and then 200
\* makes the call return the 200 response; one that answers 429 on each of
\* the max_retries+1 attempts makes it return None.  (While the 429s are
\* no more than max_retries the call is still going on.)
C1_RetryPolicy ==
    /\ rq.hist = Repeated(429, cfg.max_retries) \o <<200>>
           => Returned /\ rq.exc = "" /\ rq.ret = Bare(200)
    /\ rq.hist = Repeated(429, cfg.max_retries + 1)
           => Returned /\ rq.exc = "" /\ rq.ret = None
    /\ \A n \in 1..cfg.max_retries : rq.hist = Repeated(429, n) => GoingOn

C1_Witness ==
    /\ cfg.max_retries = MaxRetries
    /\ rq.hist = Repeated(429, MaxRetries) \o <<200>>
    /\ pc = "done"
    /\ rq.ret = Bare(200)

\* C2 as stated, for the non-2xx statuses that are HTTP errors (4xx and 5xx
\* other than 429): such a response ends the call at once with an HTTP
\* status error handed to the caller, and no sleep or request follows it.
C2_FailsImmediately ==
    rq.hist # <<>> /\ IsErrorStatus(Last(rq.hist))
        => /\ Returned
           /\ rq.exc = "HTTPError"
           /\ Len(rq.sleeps) < Len(rq.hist)

\* C2 amended: a response with a 4xx or 5xx status other than 429 is
\* handled inside the call like a request failure: while an attempt is
\* left the call sleeps and tries again, after the last attempt it returns
\* None, and in neither case does an exception reach the caller; a response
\* with another non-2xx status is returned to the caller.
C2_HttpErrorRetried ==
    rq.hist # <<>> /\ IsOtherNon2xx(Last(rq.hist))
        => /\ rq.exc = ""
           /\ IF ~IsErrorStatus(Last(rq.hist))
              THEN Returned /\ ~rq.ret.isNone
                       /\ rq.ret.status = Last(rq.hist)
              ELSE IF Len(rq.hist) <= cfg.max_retries
              THEN GoingOn
              ELSE Returned /\ rq.ret = None

C2_Witness ==
    /\ rq.hist = <<404, 404>>
    /\ pc = "mrr_attempt"
    /\ Len(rq.sleeps) = 2

\* C3: when every attempt ends in a network failure the call makes exactly
\* max_retries+1 requests, sleeps after each of them but the last, and then
\* returns None without raising.
C3_NetworkFailures ==
    rq.hist # <<>> /\ rq.hist = Repeated(0, Len(rq.hist))
        => /\ Len(rq.hist) <= cfg.max_retries + 1
           /\ rq.exc = ""
           /\ IF Len(rq.hist) <= cfg.max_retries
              THEN /\ GoingOn
                   /\ pc = "mrr_sleep" => Len(rq.sleeps) = Len(rq.hist) - 1
                   /\ pc = "mrr_attempt" => Len(rq.sleeps) = Len(rq.hist)
              ELSE /\ Returned
                   /\ rq.ret = None
                   /\ Len(rq.sleeps) = cfg.max_retries

C3_Witness ==
    /\ cfg.max_retries = MaxRetries
    /\ rq.hist = Repeated(0, MaxRetries + 1)
    /\ Len(rq.sleeps) = MaxRetries
    /\ pc = "done"
    /\ rq.ret = None

---------------------------------------------------------------------------
(* Properties of download_file, under SpecDownload: one call, into an      *)
(* empty directory or onto a file of an earlier run.                       *)

\* download_file has returned, its frame still as the return left it
DfReturned == pc \in {"df_ret", "pu_dled"} \/ (pc = "done" /\ dl.retTo = "done")

\* the headers of a response pass the validator's checks: the type is not
\* HTML or text, the length is a number, and it is 0 or at least 1000
HeadersPass(resp) ==
    /\ ~IsHtmlOrText(ContentTypeLower(resp))
    /\ resp.clen.kind # "bad"
    /\ (ContentLength(resp) > 0 => ContentLength(resp) >= 1000)

\* the validator returns (False, reason) for the response
HeadersRejected(resp) ==
    \/ IsHtmlOrText(ContentTypeLower(resp))
    \/ resp.clen.kind = "int" /\ resp.clen.n > 0 /\ resp.clen.n < 1000

\* C4: a GET request of download_file is made only after its HEAD request
\* for the same URL returned a response that passed validate_excel_file;
\* when the HEAD request returns None or its response does not pass, the
\* result is a failure (with the validator's reason when the validator
\* rejected it) and the call has made no GET request.
C4_HeadBeforeGet ==
    /\ rq.purpose = "get" \/ "GET" \in dl.issued
           => /\ "HEAD" \in dl.issued
              /\ ~dl.head_response.isNone
              /\ HeadersPass(dl.head_response)
              /\ rq.purpose = "get" => rq.method = "GET" /\ rq.url = dl.url
    /\ rq.purpose = "head" => rq.method = "HEAD" /\ rq.url = dl.url
    /\ DfReturned /\ dl.head_response.isNone
           => /\ ~dl.ret.success
              /\ "GET" \notin dl.issued
              /\ dl.ret.error_message.text
                     = "Failed to get file headers after retries"
    /\ DfReturned /\ ~dl.head_response.isNone /\ ~HeadersPass(dl.head_response)
           => /\ ~dl.ret.success
              /\ "GET" \notin dl.issued
              /\ HeadersRejected(dl.head_response)
                     => dl.ret.error_message
                            = validate_excel_file(dl.head_response).msg

C4_Witness ==
    /\ pc = "df_ret"
    /\ ~dl.head_response.isNone
    /\ dl.head_response.ctype = CTypeHtml
    /\ dl.ret.error_message.text = "Response is HTML/text instead of Excel file"
    /\ dl.issued = {"HEAD"}

\* C5: a DownloadResult with success=true means that the target file is in
\* the download directory with at least 1000 bytes, and that file_size is
\* its size on disk.
C5_SuccessMeansFile ==
    DfReturned /\ dl.ret.success
        => /\ dl.ret.filename = dl.filename
           /\ dl.filename \in DOMAIN dir
           /\ dir[dl.filename] >= 1000
           /\ dl.ret.file_size = dir[dl.filename]

C5_Witness ==
    /\ pc = "df_ret"
    /\ dl.ret.success
    /\ dl.ret.file_size = 1000
    /\ dir[dl.filename] = 1000

\* the response stream of the GET request was written to its end
StreamWritten ==
    /\ DfReturned
    /\ ~dl.response.isNone
    /\ HeadersPass(dl.response)
    /\ dl.response.partial < 0

\* C6: once the response stream has been written to its end, a file of
\* less than 1000 bytes is deleted and the result is a failure that names
\* the size, with file_size 0; otherwise the result is a success with the
\* size of the file.
C6_Verification ==
    StreamWritten
        => IF dl.response.body < 1000
           THEN /\ ~dl.ret.success
                /\ dl.ret.file_size = 0
                /\ dl.ret.error_message.text = "Downloaded file too small"
                /\ dl.ret.error_message.n = dl.response.body
                /\ dl.filename \notin DOMAIN dir
           ELSE /\ dl.ret.success
                /\ dl.ret.file_size = dl.response.body
                /\ dl.filename \in DOMAIN dir
                /\ dir[dl.filename] = dl.response.body

C6_Witness ==
    /\ StreamWritten
    /\ pc = "df_ret"
    /\ dl.response.body = 999
    /\ ~dl.ret.success
    /\ dl.filename \notin DOMAIN dir

\* C7: when the GET request returns None, or its response does not pass
\* the validator, the result is a failure (with the validator's reason
\* when the validator rejected the response) and the download directory is
\* as the call found it: no file was created at the target path.
C7_GetFailureLeavesNoFile ==
    DfReturned /\ "GET" \in dl.issued
               /\ (dl.response.isNone \/ ~HeadersPass(dl.response))
        => /\ ~dl.ret.success
           /\ dir = dl.before
           /\ dl.filename \notin DOMAIN dl.before
                  => dl.filename \notin DOMAIN dir
           /\ dl.response.isNone
                  => dl.ret.error_message.text
                         = "Failed to download file after retries"
           /\ ~dl.response.isNone /\ HeadersRejected(dl.response)
                  => dl.ret.error_message
                         = validate_excel_file(dl.response).msg

C7_Witness ==
    /\ pc = "df_ret"
    /\ "GET" \in dl.issued
    /\ ~dl.response.isNone
    /\ dl.response.ctype = CTypeHtml
    /\ dl.ret.error_message.text = "Response is HTML/text instead of Excel file"
    /\ dir = EmptyDir

---------------------------------------------------------------------------
(* Properties of process_url and download_from_urls, under Spec: one run   *)
(* over a list of page URLs.                                               *)

\* something failed in the download attempt that has returned
AttemptFailed ==
    \/ dl.head_response.isNone
    \/ ~HeadersPass(dl.head_response)
    \/ dl.response.isNone
    \/ ~HeadersPass(dl.response)
    \/ dl.response.partial >= 0
    \/ dl.response.body < 1000

\* C8: no exception leaves download_file; whatever fails in a download
\* attempt (no response after the retries, a rejected or malformed header,
\* a broken stream, a truncated file), the call returns a DownloadResult
\* with success=false, and process_url goes on with the next link: a page
\* whose download loop has run has one DownloadResult per link.
C8_FailuresAreResults ==
    /\ dl.exc = ""
    /\ DfReturned
           => /\ dl.ret # None
              /\ dl.ret.url = dl.url /\ dl.ret.filename = dl.filename
              /\ AttemptFailed => ~dl.ret.success /\ dl.ret.file_size = 0
    /\ pc = "pu_dled" /\ ~dl.ret.success /\ pu.i < Len(pu.excel_links)
           => ENABLED PuDled
    /\ pc \in {"pu_dl", "pu_dl_named"}
           => Len(pu.result.downloaded_files) = pu.i - 1
    /\ pc = "pu_ret" /\ pu.result.downloaded_files # <<>>
           => Len(pu.result.downloaded_files) = Len(pu.excel_links)

C8_Witness ==
    /\ pc = "pu_ret"
    /\ Len(pu.result.downloaded_files) = 2
    /\ ~pu.result.downloaded_files[1].success
    /\ pu.result.downloaded_files[1].error_message
           = Msg("Download failed", 0, <<"ChunkedEncodingError">>)
    /\ pu.result.downloaded_files[2].success

\* C9: whatever fails in the pages (the page request, a download, an
\* exception caught by process_url), download_from_urls returns one
\* DatasetResult per input URL, that of the i-th URL in the i-th place,
\* and stats['urls_processed'] has grown by the number of URLs.
C9_OneResultPerUrl ==
    /\ stats.urls_processed = Len(run.results)
    /\ Len(run.results) <= Len(run.urls)
    /\ \A i \in DOMAIN run.results : run.results[i].url = run.urls[i]
    /\ pc = "done" => Len(run.results) = Len(run.urls)

C9_Witness ==
    /\ pc = "done"
    /\ Len(run.urls) = 2
    /\ Len(run.results) = 2
    /\ run.results[1].errors
           = <<PageError("Error processing URL", NoName, NoMsg, run.urls[1])>>
    /\ run.results[2].errors
           = <<PageError("Failed to fetch webpage after retries", NoName,
                         NoMsg, NoUrl)>>

\* the number of successful entries of a list of DownloadResults
Successes(downloaded_files) ==
    Cardinality({ i \in DOMAIN downloaded_files : downloaded_files[i].success })

\* C10: in every DatasetResult, that of the page in hand and those already
\* returned, files_downloaded is the number of entries of downloaded_files
\* with success=true.
C10_FilesDownloadedCount ==
    /\ pu.result.files_downloaded = Successes(pu.result.downloaded_files)
    /\ \A i \in DOMAIN run.results :
           run.results[i].files_downloaded
               = Successes(run.results[i].downloaded_files)

C10_Witness ==
    /\ pc = "done"
    /\ \E i \in DOMAIN run.results :
           /\ Len(run.results[i].downloaded_files) = 2
           /\ run.results[i].files_downloaded = 1
           /\ ~run.results[i].downloaded_files[1].success
           /\ run.results[i].downloaded_files[2].success

\* the Excel links of a page as its anchors give them, first to last
Discovered(anchors) ==
    LET found == SelectSeq(anchors, EndsWithExcel)
    IN  [k \in DOMAIN found |-> Resolve(found[k])]

\* C11: the results of download_from_urls are in the order of the input
\* URLs, and the downloaded_files of a DatasetResult, while process_url
\* builds it and when it returns it, are in the order in which the links
\* were found among the anchors of the page.
C11_Ordering ==
    /\ \A i \in DOMAIN run.results : run.results[i].url = run.urls[i]
    /\ pc = "dfu_after" => pu.result.url = run.urls[Len(run.results) + 1]
    /\ Len(pu.result.downloaded_files) <= Len(Discovered(pu.anchors))
    /\ \A j \in DOMAIN pu.result.downloaded_files :
           pu.result.downloaded_files[j].url = Discovered(pu.anchors)[j]

C11_Witness ==
    /\ pc = "dfu_after"
    /\ Len(run.urls) = 2 /\ Len(run.results) = 1
    /\ pu.anchors = <<HrefRel, HrefRoot>>
    /\ Len(pu.result.downloaded_files) = 2
    /\ pu.result.downloaded_files[1].url = Resolve(HrefRel)
    /\ pu.result.downloaded_files[2].url = Resolve(HrefRoot)

---------------------------------------------------------------------------
(* Properties of the backoff, under SpecRetry; rq.sleeps holds the waits   *)
(* of the call in milliseconds, the k-th of them slept after attempt k-1.  *)

\* the wait is retry_delay * 2^k * jitter for a jitter, in thousandths,
\* among those given
BackoffOf(wait, k, jitters) ==
    \E jitter \in jitters : wait = cfg.retry_delay * (2 ^ k) * jitter

\* C12 as stated: before the retry that follows attempt k the wait is
\* retry_delay * 2^k * jitter with jitter in [0.8, 1.2), after a 429 and
\* after a failed request alike.
C12_JitterBelowUpperEnd ==
    \A i \in DOMAIN rq.sleeps : BackoffOf(rq.sleeps[i], i - 1, 800..1199)

\* C12: before the retry that follows attempt k (k = 0 .. max_retries-1)
\* the wait is retry_delay * 2^k * jitter with jitter from 0.8 to 1.2, both
\* ends included, after a 429 and after a failed request alike; the base
\* of the wait doubles from one attempt of a call to the next.
C12_Backoff ==
    /\ Len(rq.sleeps) <= cfg.max_retries
    /\ \A i \in DOMAIN rq.sleeps : BackoffOf(rq.sleeps[i], i - 1, 800..1200)
    /\ pc = "mrr_sleep" => rq.wait = cfg.retry_delay * (2 ^ rq.attempt)

C12_Witness ==
    /\ pc = "done"
    /\ rq.hist = <<429, 0, 200>>
    /\ rq.sleeps = <<30 * 1200, 60 * 800>>

---------------------------------------------------------------------------
(* Properties of validate_excel_file, under SpecValidate: one call, with   *)
(* a response of any of the Content-Types and Content-Lengths.             *)

\* validate_excel_file has returned or raised
Validated == pc = "done" /\ call.method = "validate_excel_file"

\* the Content-Type holds "html" or "text", in upper or lower case
HoldsHtmlOrText(ctype) ==
    \E i \in DOMAIN ctype :
        ctype[i] \in {"html", "HTML", "Html", "text", "TEXT", "Text"}

\* C13: validate_excel_file rejects every response whose Content-Type holds
\* "html" or "text", in whatever case and whatever the Content-Length, a
\* malformed one included.
C13_HtmlOrTextRejected ==
    Validated /\ HoldsHtmlOrText(call.arg.ctype)
        => /\ ~call.ret.raises
           /\ ~call.ret.valid
           /\ call.ret.msg.text = "Response is HTML/text instead of Excel file"

C13_Witness ==
    /\ Validated
    /\ call.arg.ctype = <<"TEXT", "HTML">>
    /\ call.arg.clen = CLen(5000)
    /\ ~call.ret.valid

\* C14: for a response whose Content-Type is not html or text,
\* validate_excel_file rejects a declared Content-Length from 1 to 999 and
\* passes one of 1000 or more, an absent one and one of 0.
C14_LengthCheck ==
    Validated /\ ~HoldsHtmlOrText(call.arg.ctype) /\ call.arg.clen.kind # "bad"
        => /\ ~call.ret.raises
           /\ IF call.arg.clen.kind = "int" /\ call.arg.clen.n >= 1
                  /\ call.arg.clen.n <= 999
              THEN /\ ~call.ret.valid
                   /\ call.ret.msg = Msg("File too small", call.arg.clen.n, <<>>)
              ELSE call.ret.valid /\ call.ret.msg = NoMsg

C14_Witness ==
    /\ Validated
    /\ call.arg.ctype = CTypeExcel
    /\ call.arg.clen = CLen(0)
    /\ call.ret.valid

---------------------------------------------------------------------------
(* Properties of extract_excel_links, under SpecLinks: one call, on a page *)
(* of up to MaxLinks anchors.                                              *)

\* extract_excel_links has returned
Extracted == pc = "done" /\ call.method = "extract_excel_links"

\* the path of a URL: what comes before its query
RECURSIVE PathOf(_)
PathOf(url) ==
    IF url = <<>> \/ Head(url) = "?" THEN <<>>
    ELSE <<Head(url)>> \o PathOf(Tail(url))

\* the path of the URL ends in .xlsx or .xls, in upper or lower case
PathEndsInExcel(url) ==
    LET path == PathOf(url)
    IN  path # <<>> /\ path[Len(path)] \in {".xlsx", ".xls", ".XLSX", ".XLS"}

\* C15 as stated: every URL that extract_excel_links returns has a path
\* that ends in .xlsx or .xls (a set holds no URL twice).
C15_PathsEndInExcel ==
    Extracted => \A url \in call.ret : PathEndsInExcel(url)

---------------------------------------------------------------------------
(* The links of a page in process_url, under Spec. *)

\* the distinct URLs among the Excel links of the page in hand
DistinctLinks == { Discovered(pu.anchors)[k] : k \in DOMAIN Discovered(pu.anchors) }

\* C16 as stated: process_url downloads once per link of the deduplicated
\* set of links of the page: files_found is the number of distinct
\* spreadsheet URLs of the page, and no two entries of downloaded_files are
\* downloads of the same URL.
C16_OncePerDistinctLink ==
    /\ pc \in {"pu_list", "pu_dl", "pu_ret"} /\ pu.anchors # <<>>
           => pu.result.files_found = Cardinality(DistinctLinks)
    /\ \A j, k \in DOMAIN pu.result.downloaded_files :
           j # k => pu.result.downloaded_files[j].url
                        # pu.result.downloaded_files[k].url

---------------------------------------------------------------------------
(* The resolution of hrefs, under SpecLinks. *)

\* the href names a scheme
HasScheme(href) == href # <<>> /\ Head(href) \in {"http:", "https:"}

\* C17 as stated: of the hrefs that are links to spreadsheets, one that
\* starts with "/" is resolved to base URL + href, one with no scheme and
\* no leading "/" to base URL + "/" + href, and one that starts with
\* "http" is returned as it is.
C17_Resolution ==
    Extracted =>
        \A i \in DOMAIN call.arg :
            LET href == call.arg[i].href IN
            HoldsExcelExtension(href) =>
                /\ Head(href) = "/" => BaseUrlString \o href \in call.ret
                /\ ~HasScheme(href) /\ Head(href) # "/"
                       => BaseUrlString \o <<"/">> \o href \in call.ret
                /\ Head(href) \in {"http:", "https:", "httpdocs"}
                       => href \in call.ret

---------------------------------------------------------------------------
(* The filenames of links with the same basename, under Spec: a run that   *)
(* starts with an empty download directory.                                *)

\* the DownloadResults of the pages that have returned, first to last
RECURSIVE Flattened(_)
Flattened(results) ==
    IF results = <<>> THEN <<>>
    ELSE Head(results).downloaded_files \o Flattened(Tail(results))

\* the DownloadResults of the run so far, in the order of the downloads
AllDownloads == Flattened(run.results) \o pu.result.downloaded_files

\* entries j < k of the run are downloads of two different links whose
\* URLs have the same basename, a spreadsheet name
SameBasename(j, k) ==
    LET d == AllDownloads IN
    /\ j < k
    /\ d[j].url # d[k].url
    /\ Basename(d[j].url) = Basename(d[k].url)
    /\ IsExcelName(Basename(d[j].url))

WithSuffix(filename, k) ==
    [stem |-> filename.stem \o <<(<<"1", "2", "3", "4", "5", "6", "7", "8", "9", "10">>)[k]>>,
     ext |-> filename.ext]

\* the download left a file under its name: it succeeded, or its stream
\* broke after the file was opened
LeftFile(download_result) ==
    \/ download_result.success
    \/ download_result.error_message.detail = <<"ChunkedEncodingError">>

\* how many of the downloads before the k-th were of a URL with the
\* basename of the k-th and left a file
FilesLeftBefore(k) ==
    Cardinality({ m \in 1..(k - 1) :
                    /\ Basename(AllDownloads[m].url) = Basename(AllDownloads[k].url)
                    /\ LeftFile(AllDownloads[m]) })

---------------------------------------------------------------------------
(* Properties of ensure_unique_filename, under SpecUnique. *)

\* C19: ensure_unique_filename returns the name asked for if no file has
\* it; otherwise the name with _k for the smallest k >= 1 that no file
\* has; either way no file has the name it returns.
C19_FirstFit ==
    pc = "resolved" =>
        /\ call.ret \notin DOMAIN dir
        /\ call.arg \notin DOMAIN dir => call.ret = call.arg
        /\ call.arg \in DOMAIN dir =>
               \E k \in 1..(Cardinality(DOMAIN dir) + 1) :
                   /\ call.ret = WithSuffix(call.arg, k)
                   /\ \A m \in 1..(k - 1) :
                          WithSuffix(call.arg, m) \in DOMAIN dir

C19_Witness ==
    /\ pc = "resolved"
    /\ call.arg = FileName(<<"a">>, ".xlsx")
    /\ call.before = [f \in { FileName(<<"a">>, ".xlsx"),
                              FileName(<<"a", "1">>, ".xlsx"),
                              FileName(<<"b">>, ".xlsx") } |-> 5000]
    /\ dir = call.before
    /\ call.ret = FileName(<<"a", "2">>, ".xlsx")

\* C20 as stated: of the resolutions of one filename in a row, the second
\* returns the name with _1 and the third the name with _2.
C20_SecondAndThird ==
    /\ Len(call.rets) >= 2 => call.rets[2].name = WithSuffix(call.arg, 1)
    /\ Len(call.rets) >= 3 => call.rets[3].name = WithSuffix(call.arg, 2)

\* the directory held neither the name nor the name with _1 or _2 at the
\* first call
FreshFor(filename, d) ==
    /\ filename \notin DOMAIN d
    /\ \A k \in 1..2 : WithSuffix(filename, k) \notin DOMAIN d

\* C20: when the directory holds neither the name nor its suffixed names
\* at first, and a file is written under each name returned before the
\* next call, the first resolution returns the name, the second the name
\* with _1 and the third the name with _2; a resolution that follows one
\* after which no file was written returns the same name again.
C20_InSequence ==
    /\ FreshFor(call.arg, call.before)
       /\ (\A i \in DOMAIN call.rets : call.rets[i].written)
           => /\ Len(call.rets) >= 1 => call.rets[1].name = call.arg
              /\ Len(call.rets) >= 2
                     => call.rets[2].name = WithSuffix(call.arg, 1)
              /\ Len(call.rets) >= 3
                     => call.rets[3].name = WithSuffix(call.arg, 2)
    /\ \A i \in DOMAIN call.rets :
           i > 1 /\ ~call.rets[i - 1].written
               => call.rets[i].name = call.rets[i - 1].name

C20_Witness ==
    /\ call.before = [f \in {FileName(<<"b">>, ".xlsx")} |-> 5000]
    /\ call.rets = << [name |-> FileName(<<"a">>, ".xlsx"), written |-> TRUE],
                      [name |-> FileName(<<"a", "1">>, ".xlsx"), written |-> TRUE],
                      [name |-> FileName(<<"a", "2">>, ".xlsx"), written |-> TRUE] >>

---------------------------------------------------------------------------
(* Properties of get_filename_from_url, under SpecFilename. *)

\* the name ends in .xlsx or .xls, in upper or lower case
EndsInExcel(filename) ==
    filename.stem # <<>> /\ filename.ext \in {".xlsx", ".xls", ".XLSX", ".XLS"}

\* "{dataset_name lowercased}_file_{index}.xlsx"
Synthesized ==
    [stem |-> << (IF call.dataset_name = "VACS01" THEN "vacs01"
                  ELSE call.dataset_name),
                 "file", (<<"1", "2", "3", "4", "5">>)[call.index] >>,
     ext |-> ".xlsx"]

\* C21 as stated: get_filename_from_url returns the basename of the URL
\* path if it ends in .xlsx or .xls, and then makes no request; otherwise
\* it makes a HEAD request and returns the filename of the
\* Content-Disposition header if there is one and it ends in .xlsx or
\* .xls; otherwise, and when the HEAD request gave no response, the
\* synthesized name.
C21_PreferenceOrder ==
    pc = "gf_ret" =>
        IF EndsInExcel(Basename(call.arg))
        THEN call.ret = Basename(call.arg) /\ rq = IdleRequest
        ELSE /\ rq.method = "HEAD" /\ rq.url = call.arg
             /\ call.ret =
                    IF /\ ~rq.ret.isNone
                       /\ rq.ret.cdisp.marker = "filename="
                       /\ EndsInExcel(rq.ret.cdisp.name)
                    THEN rq.ret.cdisp.name
                    ELSE Synthesized

\* C22 as stated: of the resolutions of one URL in a row, with the same
\* dataset name and index and no file written in between, each returns
\* the name the one before returned.
C22_SameNameEachTime ==
    \A i \in DOMAIN call.rets :
        i > 1 => call.rets[i].name = call.rets[i - 1].name

\* C22: of the resolutions of one URL in a row, with the same dataset name
\* and index and no file written in between, each returns the name the one
\* before returned if the basename of the URL path ends in .xlsx or .xls
\* (no request is made then), or if its HEAD request got the answer the
\* HEAD request of the one before got.
C22_SameNameIfSameAnswer ==
    /\ dir = EmptyDir
    /\ \A i \in DOMAIN call.rets :
           /\ call.rets[i].requested = ~EndsInExcel(Basename(call.arg))
           /\ i > 1 /\ call.rets[i].head_response
                           = call.rets[i - 1].head_response
                  => call.rets[i].name = call.rets[i - 1].name

C22_Witness ==
    /\ call.arg = Resolve(HrefQuery)
    /\ Len(call.rets) = 2
    /\ ~call.rets[1].head_response.isNone
    /\ call.rets[1].head_response = call.rets[2].head_response
    /\ call.rets[1].name = FileName(<<"c">>, ".xlsx")
    /\ call.rets[2].name = FileName(<<"c">>, ".xlsx")

---------------------------------------------------------------------------
(* Pages that give nothing to download, under Spec. *)

\* the DatasetResult of a page of which nothing was found or downloaded,
\* with the one message that says why
EmptyResult(url, text) ==
    [url |-> url, dataset_name |-> extract_dataset_name(url),
     files_found |-> 0, files_downloaded |-> 0, downloaded_files |-> <<>>,
     errors |-> << [text |-> text, filename |-> NoName, cause |-> NoMsg,
                    url |-> NoUrl] >>]

\* the result of process_url is put at the end of the results, and the
\* loop of download_from_urls goes to the URL after this one or ends
\* after the last
ResultKept ==
    /\ run'.results = Append(run.results, pu.result)
    /\ pc' \in {"dfu_loop", "dfu_wait"}
    /\ pc' = "dfu_loop" => run'.i = run.i + 1

\* C23: when the request for the page gives no response after the
\* retries, process_url returns, without calling download_file or touching
\* the directory, a DatasetResult for that URL with files_found = 0,
\* files_downloaded = 0, no DownloadResult and the error "Failed to fetch
\* webpage after retries"; download_from_urls appends it to its results
\* and goes on with the next URL, so that it ends with one result per URL.
C23_PageFetchFailure ==
    /\ [][pc = "pu_page" /\ rq.exc = "" /\ rq.ret.isNone
            => /\ pc' = "pu_ret"
               /\ pu'.result = EmptyResult(pu.url,
                                   "Failed to fetch webpage after retries")
               /\ pu'.result.url = run.urls[run.i]
               /\ dl = IdleDownload /\ dl' = dl /\ dir' = dir]_vars
    /\ [][pc = "pu_ret" => pc' = "dfu_after" /\ pu'.result = pu.result]_vars
    /\ [][pc = "dfu_after" => ResultKept]_vars
    /\ [][pc = "dfu_wait" => pc' = "dfu_loop" /\ run'.i = run.i + 1]_vars
    /\ [][pc = "dfu_loop" /\ run.i <= Len(run.urls)
            => pc' = "pu_start" /\ pu'.url = run.urls[run.i]]_vars
    /\ [](pc = "done" => Len(run.results) = Len(run.urls))

C23_Witness ==
    /\ pc = "df_start"
    /\ run.i = 2
    /\ run.results = <<EmptyResult(run.urls[1],
                           "Failed to fetch webpage after retries")>>
    /\ pu.url = run.urls[2]

\* C24: when the page is fetched and none of its anchors is a spreadsheet
\* link, process_url returns a DatasetResult with files_found = 0,
\* files_downloaded = 0, no DownloadResult and exactly one error, "No
\* Excel files found on this page", and download_from_urls puts it in the
\* list it returns, at the place of its URL.
C24_NoLinksStillAResult ==
    /\ [][pc = "pu_page" /\ rq.exc = "" /\ ~rq.ret.isNone
                /\ Discovered(rq.ret.anchors) = <<>>
            => /\ pc' = "pu_ret"
               /\ pu'.result = EmptyResult(pu.url,
                                   "No Excel files found on this page")]_vars
    /\ [][pc = "pu_ret" /\ pu.result.files_found = 0
            => pc' = "dfu_after" /\ pu'.result = pu.result]_vars
    /\ [][pc = "dfu_after" /\ pu.result.files_found = 0
            => /\ run'.results = Append(run.results, pu.result)
               /\ run'.results[run.i].url = run.urls[run.i]]_vars
    /\ [][\A i \in DOMAIN run.results :
              i \in DOMAIN run'.results /\ run'.results[i] = run.results[i]]_vars

C24_Witness ==
    /\ pc = "done"
    /\ Len(run.results) = 2
    /\ run.results[1] = EmptyResult(run.urls[1],
                            "No Excel files found on this page")
    /\ run.results[2].files_downloaded = 1

\* C25: when a page has two spreadsheet links, the first download
\* succeeds and the second is rejected by the validator for a text/html
\* content type, the DatasetResult has files_found = 2, files_downloaded
\* = 1 and exactly one error, which names the file of the second link
\* (not that of the first) and quotes the validator's message.
C25_OneOfTwo ==
    /\ pc = "pu_ret"
    /\ Len(Discovered(pu.anchors)) = 2
    /\ Len(pu.result.downloaded_files) = 2
    /\ pu.result.downloaded_files[1].success
    /\ ~pu.result.downloaded_files[2].success
    /\ pu.result.downloaded_files[2].error_message
           = Msg("Response is HTML/text instead of Excel file", 0,
                 CTypeHtml)
    => /\ pu.result.files_found = 2
       /\ pu.result.files_downloaded = 1
       /\ Len(pu.result.errors) = 1
       /\ pu.result.errors[1].text = "Failed to download"
       /\ pu.result.errors[1].filename = pu.result.downloaded_files[2].filename
       /\ pu.result.errors[1].filename # pu.result.downloaded_files[1].filename
       /\ pu.result.errors[1].cause
              = pu.result.downloaded_files[2].error_message
       /\ pu.result.downloaded_files[2].url = Discovered(pu.anchors)[2]

C25_Witness ==
    /\ pc = "pu_ret"
    /\ pu.anchors = <<HrefRoot, HrefRel>>
    /\ pu.result.files_found = 2
    /\ pu.result.files_downloaded = 1
    /\ pu.result.downloaded_files[1].success
    /\ pu.result.downloaded_files[1].file_size = 1000
    /\ Len(pu.result.errors) = 1
    /\ pu.result.errors[1].filename = FileName(<<"a", "1">>, ".xlsx")
    /\ pu.result.errors[1].cause
           = Msg("Response is HTML/text instead of Excel file", 0, CTypeHtml)

---------------------------------------------------------------------------
(* The waits between files and between pages, under Spec. *)

\* a time wait_with_jitter may sleep for a delay of so many seconds:
\* between half the delay and one and a half times the delay
IsJittered(wait, delay) == 500 * delay <= wait /\ wait <= 1500 * delay

\* C26: with delay_between_files > 0, process_url sleeps a jittered
\* delay_between_files after each download of a page but the last, failed
\* or not, and the next download starts only from the end of that sleep,
\* no request being made meanwhile; with delay_between_urls > 0,
\* download_from_urls does the same with delay_between_urls after each
\* page but the last.
C26_Pacing ==
    /\ [][pc = "pu_dled" /\ pu.i < Len(pu.excel_links)
              /\ cfg.delay_between_files > 0
            => /\ pc' = "pu_wait"
               /\ IsJittered(pu'.wait, cfg.delay_between_files)
               /\ Len(pu'.result.downloaded_files) = pu.i]_vars
    /\ [][pc = "pu_wait"
            => pc' = "pu_dl" /\ pu'.i = pu.i + 1 /\ rq' = rq /\ dl' = dl]_vars
    /\ [][pc' = "pu_dl" /\ pu'.i > 1 /\ pu'.i # pu.i
              /\ cfg.delay_between_files > 0
            => pc = "pu_wait"]_vars
    /\ [](pc \in {"pu_dl", "pu_dl_named", "df_start"} \/ rq.purpose \in {"head", "get"}
              => pu.wait = 0)
    /\ [][pc = "dfu_after" /\ run.i < Len(run.urls)
              /\ cfg.delay_between_urls > 0
            => /\ pc' = "dfu_wait"
               /\ IsJittered(run'.wait, cfg.delay_between_urls)]_vars
    /\ [][pc = "dfu_wait"
            => pc' = "dfu_loop" /\ run'.i = run.i + 1 /\ rq' = rq]_vars
    /\ [][run'.i # run.i /\ run'.i > 1 /\ run'.i <= Len(run.urls)
              /\ cfg.delay_between_urls > 0
            => pc = "dfu_wait"]_vars
    /\ [](pc \in {"pu_start", "pu_page"} \/ rq.purpose = "page"
              => run.wait = 0)

C26_Witness ==
    /\ pc = "dfu_wait"
    /\ run.wait = 15000
    /\ Len(run.results) = 1
    /\ Len(run.results[1].downloaded_files) = 2
    /\ ~run.results[1].downloaded_files[1].success
    /\ run.results[1].downloaded_files[2].success

---------------------------------------------------------------------------
(* What a failed download_file leaves behind, under SpecDownload. *)

\* C29 as stated: whenever download_file returns success=false and no
\* file was at the target path before the call, no file is at the target
\* path after it, also when the failure is an exception raised while the
\* body was being written to the file.
C29_NoResidue ==
    DfReturned /\ dl.exc = "" /\ ~dl.ret.success
               /\ dl.filename \notin DOMAIN dl.before
        => dl.filename \notin DOMAIN dir

---------------------------------------------------------------------------
(* The attempts of one make_request_with_retry, under SpecRetryFair. *)

\* C30: whatever the attempts of a call meet (429, a network failure, an
\* HTTP error status, a response that is returned), in whatever order,
\* the call makes at most max_retries + 1 requests and sleeps at most
\* max_retries times, one counter counting the attempts of every kind (a
\* sleep follows each attempt but the last, and each request but the first
\* follows a sleep), and the call ends, returning a response or None and
\* raising nothing.
C30_BoundedAttempts ==
    /\ [](/\ Len(rq.hist) <= cfg.max_retries + 1
          /\ Len(rq.sleeps) <= cfg.max_retries
          /\ rq.attempt <= cfg.max_retries
          /\ Len(rq.sleeps) = rq.attempt
          /\ Len(rq.hist) = rq.attempt + (IF pc = "mrr_attempt" THEN 0 ELSE 1)
          /\ Returned
                => /\ rq.exc = ""
                   /\ \/ rq.ret = None
                      \/ ~rq.ret.isNone /\ rq.ret.status = Last(rq.hist))
    /\ <>(pc = "done")

C30_Witness ==
    /\ pc = "done"
    /\ cfg.max_retries = 2
    /\ rq.hist = <<429, 0, 404>>
    /\ Len(rq.sleeps) = 2
    /\ rq.ret = None

---------------------------------------------------------------------------
(* The CSVs of a workbook, under SpecClean. *)

\* the sheets of the workbook that are not empty after the cleaning
NonEmptySheets == { i \in DOMAIN call.arg : call.arg[i].kind = "data" }

\* the CSVs the call has left in the output folder
Outputs == { f \in DOMAIN dir : dir[f] # 0 }

\* C27 as stated: a call that returns leaves one CSV for each sheet that
\* is not empty after the cleaning, and so at least one; a call on a
\* workbook without sheets, or whose sheets are all empty after the
\* cleaning, raises.
C27_OneCsvPerSheet ==
    pc = "done" =>
        /\ call.exc = ""
               => /\ \A i \in NonEmptySheets : \E f \in Outputs : dir[f] = i
                  /\ Cardinality(Outputs) = Cardinality(NonEmptySheets)
                  /\ Outputs # {}
        /\ NonEmptySheets = {} => call.exc # "" /\ Outputs = {}

---------------------------------------------------------------------------
(* The worker threads of read_all_csv, under SpecWorkers. *)

\* the threads whose target has returned or raised
Over == { t \in DOMAIN call.threads :
              call.threads[t] \in {"finished", "raised"} }

\* C28: however the four workers and the main thread interleave, no
\* join() is called before all four threads are started, the joins are
\* made on all four (each returns only when its thread has terminated),
\* and end_time is taken and "All scripts completed" is logged only when
\* the four workers have terminated.
C28_JoinedBeforeCompleted ==
    /\ Len(call.threads) = 4
    /\ pc # "rc_start" \/ call.joined > 0
           => \A t \in DOMAIN call.threads : call.threads[t] # "new"
    /\ pc = "rc_start" => call.joined = 0
    /\ pc = "rc_join" => call.joined = call.i - 1
    /\ \A t \in 1..call.joined : t \in Over
    /\ pc \in {"rc_end", "done"}
           => call.joined = 4 /\ Over = DOMAIN call.threads
    /\ call.logged <=> pc = "done"
    /\ call.logged => call.ended = DOMAIN call.threads

C28_Witness ==
    /\ pc = "done"
    /\ call.logged
    /\ call.threads = <<"raised", "finished", "finished", "raised">>

---------------------------------------------------------------------------
(* The files and the counters of a run, under Spec. *)

\* download_file, called by process_url, has not yet opened its file
BeforeOpen ==
    /\ dl.retTo = "pu_dled"
    /\ pc \in {"df_start", "df_head", "df_get"} \/ rq.purpose \in {"head", "get"}

\* C31: the name process_url gives to download_file is the name of no file
\* of the download directory when ensure_unique_filename returns it, the
\* directory is the same when download_file opens the file, so that no
\* download writes over a file that was there; no two successful
\* DownloadResults of a run have the same filename, and the file of each
\* stays as its download left it.
C31_NoOverwrite ==
    /\ dl.retTo = "pu_dled" => dl.filename \notin DOMAIN dl.before
    /\ BeforeOpen => dir = dl.before
    /\ \A j, k \in DOMAIN AllDownloads :
           j < k /\ AllDownloads[j].success /\ AllDownloads[k].success
               => AllDownloads[j].filename # AllDownloads[k].filename
    /\ \A j \in DOMAIN AllDownloads :
           AllDownloads[j].success
               => /\ AllDownloads[j].filename \in DOMAIN dir
                  /\ dir[AllDownloads[j].filename] = AllDownloads[j].file_size

C31_Witness ==
    /\ pc = "done"
    /\ Len(AllDownloads) = 2
    /\ AllDownloads[1].success /\ AllDownloads[2].success
    /\ AllDownloads[1].url = AllDownloads[2].url
    /\ AllDownloads[1].filename = FileName(<<"a">>, ".xlsx")
    /\ AllDownloads[2].filename = FileName(<<"a", "1">>, ".xlsx")
    /\ AllDownloads[2].file_size = 1000

\* the sum of the file_size of the successful entries of a list of
\* DownloadResults
RECURSIVE SizeOf(_)
SizeOf(downloaded_files) ==
    IF downloaded_files = <<>> THEN 0
    ELSE (IF Head(downloaded_files).success
          THEN Head(downloaded_files).file_size ELSE 0)
         + SizeOf(Tail(downloaded_files))

\* the DownloadResult download_file has returned and process_url has not
\* yet put in its list, if there is one
InHand ==
    IF dl.retTo = "pu_dled" /\ pc \in {"df_ret", "pu_dled"}
    THEN <<dl.ret>> ELSE <<>>

\* C32: in a run of download_from_urls, stats['files_downloaded'] is the
\* number of successful DownloadResults recorded so far and
\* stats['total_size'] the sum of the file_size of the successful
\* DownloadResults returned so far (download_file adds the size just
\* before it returns the result, process_url counts the download just
\* after it has received it); neither counter ever decreases.
C32_DownloadAccounting ==
    /\ [](/\ stats.files_downloaded = Successes(AllDownloads)
          /\ stats.total_size = SizeOf(AllDownloads \o InHand)
          /\ pc \in {"dfu_loop", "dfu_after", "dfu_wait", "done"}
                => stats.total_size = SizeOf(AllDownloads))
    /\ [][/\ stats'.files_downloaded >= stats.files_downloaded
          /\ stats'.total_size >= stats.total_size]_vars

C32_Witness ==
    /\ pc = "done"
    /\ stats.files_downloaded = 2
    /\ stats.total_size = 2000
    /\ Len(run.results) = 2
    /\ Len(AllDownloads) = 2

\* the sum of files_found over a list of DatasetResults
RECURSIVE FoundIn(_)
FoundIn(results) ==
    IF results = <<>> THEN 0
    ELSE Head(results).files_found + FoundIn(Tail(results))

\* C33 as stated: when download_from_urls has returned,
\* stats['files_found'] is the sum of files_found over the DatasetResults
\* it returned and stats['files_downloaded'] is not above it, also in a
\* run in which process_url caught an unexpected exception.
C33_FoundAccounting ==
    pc = "done" => /\ stats.files_found = FoundIn(run.results)
                   /\ stats.files_downloaded <= stats.files_found

\* the DatasetResults process_url has returned or is about to return
Finished ==
    { run.results[i] : i \in DOMAIN run.results }
        \cup (IF pc \in {"pu_ret", "dfu_after"} THEN {pu.result} ELSE {})

\* process_url caught an unexpected exception while it made the result
Excepted(result) ==
    \E e \in DOMAIN result.errors :
        result.errors[e].text = "Error processing URL"

\* C34: the DatasetResult of a page that was fetched, had at least one
\* link and met no unexpected exception has one DownloadResult per link
\* found and one error per download that failed; every DatasetResult,
\* finished or in the making, has files_downloaded <= len(downloaded_files)
\* <= files_found.
C34_PageBookkeeping ==
    /\ \A result \in Finished :
           result.files_found > 0 /\ ~Excepted(result)
               => /\ Len(result.downloaded_files) = result.files_found
                  /\ Len(result.errors)
                         = result.files_found - result.files_downloaded
    /\ \A result \in Finished \cup {pu.result} :
           /\ result.files_downloaded <= Len(result.downloaded_files)
           /\ Len(result.downloaded_files) <= result.files_found

C34_Witness ==
    /\ pc = "done"
    /\ \E i \in DOMAIN run.results :
           /\ run.results[i].files_found = 2
           /\ run.results[i].files_downloaded = 0
           /\ Len(run.results[i].downloaded_files) = 2
           /\ Len(run.results[i].errors) = 2
           /\ ~Excepted(run.results[i])

---------------------------------------------------------------------------
(* The order of main of df_parsing/vacs01, under SpecMain. *)

\* the name ends with .xlsx, contains 'vacs01' and does not contain
\* '2017', whatever the case of its letters
MatchesFilter(filename) ==
    /\ filename.ext \in {".xlsx", ".XLSX"}
    /\ \E w \in DOMAIN filename.stem : filename.stem[w] \in {"vacs01", "VACS01"}
    /\ ~\E w \in DOMAIN filename.stem : filename.stem[w] = "2017"

\* C35: main lists the files to clean before convert_xls_to_xlsx and
\* delete_xls_files run; delete_xls_files removes the files of the folder
\* that match the filter of that list, those of the list among them, and
\* no other file; so when no deletion fails, each file of the list is
\* missing when its turn comes, is logged as not found, and
\* _xlsx_sheets_to_csvs_vacs01 is never called.
C35_NothingLeftToClean ==
    /\ pc \in {"vm_convert", "vm_delete"}
           => /\ call.invoked = {} /\ call.missing = {}
              /\ call.files \subseteq DOMAIN dir
    /\ pc = "vm_convert"
           => call.files = { f \in DOMAIN dir : MatchesFilter(f) }
    /\ pc \in {"vm_loop", "done"}
           => /\ call.files \subseteq
                     { f \in DOMAIN call.folder : MatchesFilter(f) }
              /\ DOMAIN dir
                     = { f \in DOMAIN call.folder :
                             MatchesFilter(f) => f \in call.undeleted }
              /\ call.undeleted = {}
                     => /\ call.invoked = {}
                        /\ call.exc = ""
                        /\ call.missing \subseteq call.files
                        /\ pc = "done" => call.missing = call.files
              /\ call.invoked \subseteq call.undeleted

C35_Witness ==
    /\ pc = "done"
    /\ call.undeleted = {}
    /\ call.files = {FileName(<<"vacs01">>, ".xlsx"),
                     FileName(<<"VACS01", "b">>, ".XLSX")}
    /\ call.missing = call.files
    /\ FileName(<<"vacs01", "c">>, ".xlsx") \in DOMAIN call.folder
    /\ DOMAIN dir = {FileName(<<"vacs01", "c">>, ".xls"),
                     FileName(<<"vacs01", "2017">>, ".xlsx")}

====
